---------------------------- MODULE Spec2Model ----------------------------
(***************************************************************************)
(* Scan coordination of the Pico 2 W WiFi scanner: the periodic requester  *)
(* (main_task), the scanner task with do_scan, the two binary semaphores   *)
(* and the shared result pointer of wifi_scanner.cpp, the ScanResult       *)
(* buffer of scan_msg.hpp and the LED controller of led.cpp.               *)
(*                                                                         *)
(* Scheduling: FreeRTOS preemptive priorities on one core.  The scanner    *)
(* task (tskIDLE_PRIORITY + 2) outranks main_task (tskIDLE_PRIORITY + 1),  *)
(* so a requester step is taken only while the scanner task is blocked.    *)
(* The radio (CYW43 driver) and the timer service are the environment.     *)
(***************************************************************************)
EXTENDS Integers, Sequences, FiniteSets, TLC

\* ------------------------------------------------------------ constants
MAX_SSID_LEN == 32
MAX_SCAN_RESULTS == 32
SCANNER_PRIORITY == 2
MAIN_PRIORITY == 1

\* wifi_task.h: capacity of the result queue of the queue-based variant.
WIFI_SCAN_RESULT_QUEUE_LEN == 16

\* Bounds of the exploration (not program constants).
MaxCalls == 2
MaxDisc == 1
\* Operations one run of the buffer exerciser applies to its ScanResult.
MaxUnitOps == 54
\* Indicator operations one run of the LED exerciser applies.
MaxLedOps == 6
\* Discoveries the radio reports in one scan of the queue-based variant.
MaxQDisc == 17

\* --------------------------------------------------------------- types
\* Requester tasks; each owns one ScanResult.  main_task is the only one the
\* firmware creates.
Tasks == {"main"}
NullPtr == "null"
CallIds == 1..MaxCalls

\* cyw43_wifi_scan return values tried: success and a synchronous failure.
StartErrors == {0, -5}

AuthModes == <<"OPEN", "WEP", "WPA_PSK", "WPA2_PSK", "WPA_WPA2_PSK", "WPA3_PSK", "UNKNOWN">>

\* x & m for a single-bit mask m (a power of two), as a truth value.
BitSet(x, m) == (x \div m) % 2 = 1

\* Variant of auth_mode_from_cyw43: the single-bit tests come before the
\* test of both bits.
auth_mode_from_cyw43_NoPrecedence(auth) ==
    IF auth = 0 THEN "OPEN"
    ELSE IF auth = 1 THEN "WEP"
    ELSE IF BitSet(auth, 4) THEN "WPA2_PSK"
    ELSE IF BitSet(auth, 2) THEN "WPA_PSK"
    ELSE "UNKNOWN"

\* Variant of auth_mode_from_cyw43: a mask with bit 3 and neither WPA bit is
\* classified as WPA3.
auth_mode_from_cyw43_Wpa3(auth) ==
    IF auth = 0 THEN "OPEN"
    ELSE IF auth = 1 THEN "WEP"
    ELSE IF BitSet(auth, 4) /\ BitSet(auth, 2) THEN "WPA_WPA2_PSK"
    ELSE IF BitSet(auth, 4) THEN "WPA2_PSK"
    ELSE IF BitSet(auth, 2) THEN "WPA_PSK"
    ELSE IF BitSet(auth, 8) THEN "WPA3_PSK"
    ELSE "UNKNOWN"

auth_mode_from_cyw43(auth) ==
    IF auth = 0 THEN "OPEN"
    ELSE IF auth = 1 THEN "WEP"
    ELSE IF BitSet(auth, 4) /\ BitSet(auth, 2) THEN "WPA_WPA2_PSK"
    ELSE IF BitSet(auth, 4) THEN "WPA2_PSK"
    ELSE IF BitSet(auth, 2) THEN "WPA_PSK"
    ELSE "UNKNOWN"

\* Variant of auth_mode_to_string: the mixed mode is shown as WPA2.
auth_mode_to_string_Merged(auth) ==
    CASE auth = "OPEN" -> "OPEN"
      [] auth = "WEP" -> "WEP"
      [] auth = "WPA_PSK" -> "WPA"
      [] auth = "WPA2_PSK" -> "WPA2"
      [] auth = "WPA_WPA2_PSK" -> "WPA2"
      [] auth = "WPA3_PSK" -> "WPA3"
      [] OTHER -> "???"

auth_mode_to_string(auth) ==
    CASE auth = "OPEN" -> "OPEN"
      [] auth = "WEP" -> "WEP"
      [] auth = "WPA_PSK" -> "WPA"
      [] auth = "WPA2_PSK" -> "WPA2"
      [] auth = "WPA_WPA2_PSK" -> "WPA/WPA2"
      [] auth = "WPA3_PSK" -> "WPA3"
      [] OTHER -> "???"

\* The AuthMode a uint8_t value stands for: the enumerator of that value, or,
\* from 7 on, a value that is none of the enumerators.
AuthModeOf(v) == IF v < Len(AuthModes) THEN AuthModes[v + 1] ELSE ToString(v)

Min(a, b) == IF a < b THEN a ELSE b

\* Byte arrays are zero filled; one is written as the sequence of its leading
\* bytes, every byte after them being 0.  ByteAt(s, i) is the array's byte i.
ByteAt(s, i) == IF i <= Len(s) THEN s[i] ELSE 0

\* APInfo{}: the value-initialised record.
APInfoDefault ==
    [ssid |-> <<>>, bssid |-> 0, rssi |-> 0,
     channel |-> 0, auth |-> "UNKNOWN"]

\* ScanResult{}: the value-initialised buffer.
ScanResultDefault ==
    [success |-> FALSE, error_code |-> 0, count |-> 0,
     networks |-> [i \in 0..(MAX_SCAN_RESULTS - 1) |-> APInfoDefault]]

\* Variant of reset(): the error code of the previous cycle is kept.
reset_KeepError(r) == [r EXCEPT !.success = FALSE, !.count = 0]

\* Variant of reset(): the entries of the previous cycle stay counted.
reset_KeepCount(r) == [r EXCEPT !.success = FALSE, !.error_code = 0]

reset(r) == [r EXCEPT !.success = FALSE, !.error_code = 0, !.count = 0]

is_full(r) == r.count >= MAX_SCAN_RESULTS

\* Variant of add(): the capacity test is off by one.
add_OffByOne(r, ap) ==
    IF r.count <= MAX_SCAN_RESULTS
    THEN [r EXCEPT !.networks[Min(r.count, MAX_SCAN_RESULTS - 1)] = ap,
                   !.count = r.count + 1]
    ELSE r

\* Variant of add(): a successful add also clears the status fields.
add_ClearStatus(r, ap) ==
    IF r.count < MAX_SCAN_RESULTS
    THEN [r EXCEPT !.networks[r.count] = ap, !.count = r.count + 1,
                   !.success = FALSE, !.error_code = 0]
    ELSE r

\* add(): the buffer after the call; add_ret(): its return value.
add(r, ap) ==
    IF r.count < MAX_SCAN_RESULTS
    THEN [r EXCEPT !.networks[r.count] = ap, !.count = r.count + 1]
    ELSE r

add_ret(r) == r.count < MAX_SCAN_RESULTS

\* The discovery records the radio reports (cyw43_ev_scan_result_t), and a
\* null record pointer.  bssid stands for the six address bytes.
Discoveries ==
    { [present |-> TRUE, ssid |-> <<65>>, ssid_len |-> 1,
       bssid |-> 1, rssi |-> -40, channel |-> 1, auth_mode |-> 0],
      [present |-> TRUE, ssid |-> [i \in 1..MAX_SSID_LEN |-> 66],
       ssid_len |-> 40, bssid |-> 2, rssi |-> -60, channel |-> 6, auth_mode |-> 6],
      [present |-> TRUE, ssid |-> <<>>, ssid_len |-> 0,
       bssid |-> 3, rssi |-> -70, channel |-> 11, auth_mode |-> 4],
      [present |-> TRUE, ssid |-> <<0, 67>>, ssid_len |-> 2,
       bssid |-> 4, rssi |-> -80, channel |-> 3, auth_mode |-> 1],
      [present |-> FALSE, ssid |-> <<>>, ssid_len |-> 0,
       bssid |-> 0, rssi |-> 0, channel |-> 0, auth_mode |-> 0] }

\* Variant of BuildAP: the auth mask is not classified.
BuildAP_NoAuth(d) ==
    LET ssid_len == Min(d.ssid_len, MAX_SSID_LEN)
    IN  [ssid |-> [i \in 1..ssid_len |-> ByteAt(d.ssid, i)],
         bssid |-> d.bssid, rssi |-> d.rssi, channel |-> d.channel,
         auth |-> "UNKNOWN"]

\* Variant of BuildAP: the reported length is used without the bound.
BuildAP_NoBound(d) ==
    LET ssid_len == d.ssid_len
    IN  [ssid |-> [i \in 1..ssid_len |-> ByteAt(d.ssid, i)],
         bssid |-> d.bssid, rssi |-> d.rssi, channel |-> d.channel,
         auth |-> auth_mode_from_cyw43(d.auth_mode)]

\* The APInfo the callback builds from a record (lines 44-58).
BuildAP(d) ==
    LET ssid_len == Min(d.ssid_len, MAX_SSID_LEN)
    IN  [ssid |-> [i \in 1..ssid_len |-> ByteAt(d.ssid, i)],
         bssid |-> d.bssid, rssi |-> d.rssi, channel |-> d.channel,
         auth |-> auth_mode_from_cyw43(d.auth_mode)]

\* Variant of scan_result_callback: a record is taken as hidden by its
\* ssid_len alone.
scan_result_callback_LenOnly(r, d) ==
    IF ~d.present THEN r
    ELSE IF is_full(r) THEN r
    ELSE IF d.ssid_len = 0 THEN r
    ELSE add(r, BuildAP(d))

\* Variant of scan_result_callback: a discovery that finds the buffer full
\* is recorded as an error.
scan_result_callback_FullIsError(r, d) ==
    IF ~d.present THEN r
    ELSE IF is_full(r) THEN [r EXCEPT !.error_code = -1]
    ELSE IF ByteAt(BuildAP(d).ssid, 1) = 0 THEN r
    ELSE add(r, BuildAP(d))

\* scan_result_callback(env, result): the buffer env points to, after the call.
scan_result_callback(r, d) ==
    IF ~d.present THEN r
    ELSE IF is_full(r) THEN r
    ELSE IF ByteAt(BuildAP(d).ssid, 1) = 0 THEN r
    ELSE add(r, BuildAP(d))

\* Variant of scan_result_callback_ret: a full buffer stops the scan.
scan_result_callback_ret_StopWhenFull(r, d) ==
    IF ~d.present THEN 0
    ELSE IF is_full(r) THEN 1
    ELSE IF ByteAt(BuildAP(d).ssid, 1) = 0 THEN 0
    ELSE 0

\* scan_result_callback(env, result): the value it returns to the driver.
scan_result_callback_ret(r, d) ==
    IF ~d.present THEN 0
    ELSE IF is_full(r) THEN 0
    ELSE IF ByteAt(BuildAP(d).ssid, 1) = 0 THEN 0
    ELSE 0

\* --------------------------------------------- inputs of the exerciser
\* Discovery streams: stream s is a fixed, periodic sequence of records and
\* UnitRecord(s, i) is its i-th record (i >= 1).  Of every eight records five
\* have a display name (one longer than MAX_SSID_LEN), one has ssid_len 0
\* over stale bytes, one has a name starting with NUL and one is the null
\* record pointer.  The auth masks follow UnitMasks; bssid is the position.
UnitSeeds == 0..2

UnitMasks == <<0, 1, 6, 4, 2, 8, 3, 255>>

UnitRecord(s, i) ==
    LET k == (i - 1 + s) % 8
        m == UnitMasks[((i - 1 + 3 * s) % 8) + 1]
        name == <<65 + (i % 26), 48 + (i % 10)>>
    IN  [present |-> k # 7,
         ssid |-> IF k = 3 THEN <<88>>
                  ELSE IF k = 4 THEN [j \in 1..MAX_SSID_LEN |-> 66]
                  ELSE IF k = 5 THEN <<0, 67>>
                  ELSE IF k = 7 THEN <<>>
                  ELSE name,
         ssid_len |-> IF k = 3 THEN 0
                      ELSE IF k = 4 THEN 40
                      ELSE IF k = 7 THEN 0
                      ELSE 2,
         bssid |-> i, rssi |-> 0 - 30 - i, channel |-> 1 + (i % 13),
         auth_mode |-> m]

\* Lengths of the scan cycles a run is cut into: empty cycles, short ones,
\* and one long enough to overflow the buffer.
UnitCuts == {0, 1, 3, 20, MaxUnitOps}

\* The exerciser at rest (the firmware itself never drives it).
UtOff ==
    [mode |-> "off", seed |-> 0, cut |-> 0, mask |-> 0, i |-> 0, from |-> 0,
     r |-> ScanResultDefault, op |-> "init", retv |-> TRUE, cls |-> "none",
     was |-> "none", rc |-> 0]

\* ------------------------------------------------------------- state
VARIABLES
    pc,             \* position of each requester task
    bufs,           \* the ScanResult each requester owns (main_task's `result`)
    pr_i,           \* loop index i of print_results
    g_request_sem,  \* [created, count]
    g_complete_sem, \* [created, count]
    g_result_ptr,   \* owner of the buffer pointed to, or NullPtr
    wpc,            \* position of scanner_task
    w_result,       \* scanner_task's local `result`
    w_err,          \* do_scan's local `err`
    scan_active,    \* cyw43_wifi_scan_active()
    scan_env,       \* the env pointer the radio holds for the callback
    led_state,      \* led.cpp led_state
    blink_timer,    \* led.cpp blink_timer is non-null
    live_timers,    \* timer objects created and not deleted (all are started)
    \* history
    ncalls,         \* request_scan calls made
    callid,         \* the number of each requester's current call
    ret,            \* what each requester's last request_scan returned
    consumed,       \* the cycle whose response the last true return consumed
    req_tag,        \* the call that raised the pending request signal
    resp_tag,       \* the cycle that raised the pending response signal
    cyc,            \* the call whose request signal started the worker's cycle
    cycles,         \* do_scan executions started
    cyc_starts,     \* cyw43_wifi_scan calls made in the current cycle
    cyc_resets,     \* reset() calls made in the current cycle
    cyc_disc,       \* callback invocations in the current cycle
    timedout,       \* some request_scan wait has expired
    phase,          \* last event of each call's scan cycle (0 = none)
    start_fail,     \* <<call, err>> of every failed start
    console,        \* lines printed since the current request was issued
    \* a ScanResult driven directly, as the unit tests drive one
    ut,
    \* the queue-based variant (wifi_task)
    s_result_queue, \* the messages in the result queue, oldest first
    wtpc,           \* position of wifi_task
    q_terms         \* history: terminating messages enqueued in the current cycle

prog == <<pc, bufs, pr_i, g_request_sem, g_complete_sem, g_result_ptr, wpc,
          w_result, w_err, scan_active, scan_env, led_state, blink_timer, live_timers>>
hist == <<ncalls, callid, ret, consumed, req_tag, resp_tag, cyc, cycles,
          cyc_starts, cyc_resets, cyc_disc, timedout, phase, start_fail, console>>
qvars == <<s_result_queue, wtpc, q_terms>>
vars == <<prog, hist, ut, qvars>>

\* Events of a scan cycle, numbered in the order wifi_scanner.cpp and
\* main.cpp perform them in an undisturbed cycle.
Ev == [reset |-> 1, add |-> 2, status |-> 3, response |-> 4, read |-> 5]

SysInit ==
    /\ pc = [t \in Tasks |-> "init_wifi"]
    /\ bufs = [t \in Tasks |-> ScanResultDefault]
    /\ pr_i = 0
    /\ g_request_sem = [created |-> FALSE, count |-> 0]
    /\ g_complete_sem = [created |-> FALSE, count |-> 0]
    /\ g_result_ptr = NullPtr
    /\ wpc = "none"
    /\ w_result = NullPtr
    /\ w_err = 0
    /\ scan_active = FALSE
    /\ scan_env = NullPtr
    /\ led_state = FALSE
    /\ blink_timer = FALSE
    /\ live_timers = 0
    /\ ncalls = 0
    /\ callid = [t \in Tasks |-> 0]
    /\ ret = [t \in Tasks |-> "none"]
    /\ consumed = [t \in Tasks |-> 0]
    /\ req_tag = 0
    /\ resp_tag = 0
    /\ cyc = 0
    /\ cycles = 0
    /\ cyc_starts = 0
    /\ cyc_resets = 0
    /\ cyc_disc = 0
    /\ timedout = FALSE
    /\ phase = [c \in CallIds |-> 0]
    /\ start_fail = {}
    /\ console = <<>>
    /\ s_result_queue = <<>>
    /\ wtpc = "none"
    /\ q_terms = 0

Init == SysInit /\ ut = UtOff

\* ------------------------------------------------------ LED controller
\* Each operator gives <<led_state', blink_timer', live_timers'>>; `created`
\* is whether xTimerCreate returned a timer.
led_on == <<TRUE, blink_timer, live_timers>>

led_off == <<FALSE, blink_timer, live_timers>>

\* Variant of start_blink: a running timer is not deleted before the new one
\* is created.
start_blink_NoDelete(created) ==
    IF created THEN <<TRUE, TRUE, live_timers + 1>>
    ELSE <<led_state, FALSE, live_timers>>

start_blink(created) ==
    LET kept == IF blink_timer THEN live_timers - 1 ELSE live_timers
    IN  IF created THEN <<TRUE, TRUE, kept + 1>>
        ELSE <<led_state, FALSE, kept>>

\* Variant of stop_blink: the handle is cleared but the timer is not deleted.
stop_blink_Leak == <<TRUE, FALSE, live_timers>>

\* Variant of stop_blink: the timer is removed but the LED is not switched on.
stop_blink_NoLed ==
    <<led_state, FALSE, IF blink_timer THEN live_timers - 1 ELSE live_timers>>

stop_blink ==
    <<TRUE, FALSE, IF blink_timer THEN live_timers - 1 ELSE live_timers>>

SetLed(l) ==
    /\ led_state' = l[1]
    /\ blink_timer' = l[2]
    /\ live_timers' = l[3]

\* blink_tick: the timer service runs the callback of a started timer.
BlinkTick ==
    /\ live_timers > 0
    /\ led_state' = ~led_state
    /\ UNCHANGED <<pc, bufs, pr_i, g_request_sem, g_complete_sem, g_result_ptr, wpc,
                   w_result, w_err, scan_active, scan_env, blink_timer, live_timers>>
    /\ UNCHANGED hist
    /\ UNCHANGED <<ut, qvars>>

\* ---------------------------------------------------------- scheduling
\* scanner_task is blocked in xSemaphoreTake(g_request_sem, portMAX_DELAY)
\* with nothing to take, or in vTaskDelay, or does not exist yet.
WorkerBlocked ==
    \/ wpc = "none"
    \/ wpc = "wait_req" /\ g_request_sem.count = 0
    \/ wpc = "ds_delay"

\* A requester runs when the higher-priority scanner task leaves it the core.
CanRun(t) == SCANNER_PRIORITY > MAIN_PRIORITY => WorkerBlocked

Line(k, v) == [k |-> k, v |-> v]

\* ------------------------------------------------------------ main_task
\* init_wifi(): wifi::init() and, on success, led::on().
InitWifi ==
    /\ pc["main"] = "init_wifi"
    /\ CanRun("main")
    /\ \E ok \in BOOLEAN :
         IF ok
         THEN /\ SetLed(led_on)
              /\ pc' = [pc EXCEPT !["main"] = "start_scanner"]
         ELSE /\ UNCHANGED <<led_state, blink_timer, live_timers>>
              /\ pc' = [pc EXCEPT !["main"] = "halt"]
    /\ UNCHANGED <<bufs, pr_i, g_request_sem, g_complete_sem, g_result_ptr, wpc,
                   w_result, w_err, scan_active, scan_env>>
    /\ UNCHANGED hist
    /\ UNCHANGED <<ut, qvars>>

\* wifi::start_scanner_task(): both semaphores, then the task, which runs at
\* once up to its first xSemaphoreTake.
StartScannerTask ==
    /\ pc["main"] = "start_scanner"
    /\ CanRun("main")
    /\ \E rs \in BOOLEAN, cs \in BOOLEAN, tk \in BOOLEAN :
         /\ g_request_sem' = [created |-> rs, count |-> 0]
         /\ g_complete_sem' = [created |-> cs, count |-> 0]
         /\ IF rs /\ cs /\ tk
            THEN /\ wpc' = "wait_req"
                 /\ pc' = [pc EXCEPT !["main"] = "call"]
            ELSE /\ wpc' = wpc
                 /\ pc' = [pc EXCEPT !["main"] = "halt"]
    /\ UNCHANGED <<bufs, pr_i, g_result_ptr, w_result, w_err, scan_active, scan_env,
                   led_state, blink_timer, live_timers>>
    /\ UNCHANGED hist
    /\ UNCHANGED <<ut, qvars>>

\* -------------------------------------------------------- request_scan
\* Entry: the guard of line 159 and the store of line 163.  The buffer
\* passed is the caller's own, never null.
RequestScanEnter(t) ==
    /\ pc[t] = "call"
    /\ CanRun(t)
    /\ ncalls < MaxCalls
    /\ ncalls' = ncalls + 1
    /\ callid' = [callid EXCEPT ![t] = ncalls + 1]
    /\ consumed' = [consumed EXCEPT ![t] = 0]
    /\ console' = <<>>
    /\ IF ~g_request_sem.created \/ ~g_complete_sem.created
       THEN /\ ret' = [ret EXCEPT ![t] = "false"]
            /\ pc' = [pc EXCEPT ![t] = "to_msg"]
            /\ UNCHANGED g_result_ptr
       ELSE /\ ret' = [ret EXCEPT ![t] = "none"]
            /\ g_result_ptr' = t
            /\ pc' = [pc EXCEPT ![t] = "rs_give"]
    /\ UNCHANGED <<bufs, pr_i, g_request_sem, g_complete_sem, wpc, w_result, w_err,
                   scan_active, scan_env, led_state, blink_timer, live_timers>>
    /\ UNCHANGED <<req_tag, resp_tag, cyc, cycles, cyc_starts, cyc_resets, cyc_disc, timedout,
                   phase, start_fail>>
    /\ UNCHANGED <<ut, qvars>>

\* xSemaphoreGive(g_request_sem): a binary semaphore holds at most one signal.
RequestScanGive(t) ==
    /\ pc[t] = "rs_give"
    /\ CanRun(t)
    /\ g_request_sem' = [g_request_sem EXCEPT !.count = 1]
    /\ req_tag' = callid[t]
    /\ pc' = [pc EXCEPT ![t] = "rs_wait"]
    /\ UNCHANGED <<bufs, pr_i, g_complete_sem, g_result_ptr, wpc, w_result, w_err,
                   scan_active, scan_env, led_state, blink_timer, live_timers>>
    /\ UNCHANGED <<ncalls, callid, ret, consumed, resp_tag, cyc, cycles, cyc_starts, cyc_resets,
                   cyc_disc, timedout, phase, start_fail, console>>
    /\ UNCHANGED <<ut, qvars>>

\* xSemaphoreTake(g_complete_sem, timeout) obtains the signal: returns true.
RequestScanTake(t) ==
    /\ pc[t] = "rs_wait"
    /\ CanRun(t)
    /\ g_complete_sem.count = 1
    /\ g_complete_sem' = [g_complete_sem EXCEPT !.count = 0]
    /\ consumed' = [consumed EXCEPT ![t] = resp_tag]
    /\ resp_tag' = 0
    /\ ret' = [ret EXCEPT ![t] = "true"]
    /\ pc' = [pc EXCEPT ![t] = "pr_check"]
    /\ UNCHANGED <<bufs, pr_i, g_request_sem, g_result_ptr, wpc, w_result, w_err,
                   scan_active, scan_env, led_state, blink_timer, live_timers>>
    /\ UNCHANGED <<ncalls, callid, req_tag, cyc, cycles, cyc_starts, cyc_resets, cyc_disc,
                   timedout, phase, start_fail, console>>
    /\ UNCHANGED <<ut, qvars>>

\* Variant of RequestScanTimeout: giving up also aborts the running scan.
RequestScanTimeout_Abort(t) ==
    /\ pc[t] = "rs_wait"
    /\ CanRun(t)
    /\ g_complete_sem.count = 0
    /\ ret' = [ret EXCEPT ![t] = "false"]
    /\ timedout' = TRUE
    /\ scan_active' = FALSE
    /\ pc' = [pc EXCEPT ![t] = "to_msg"]
    /\ UNCHANGED <<bufs, pr_i, g_request_sem, g_complete_sem, g_result_ptr, wpc,
                   w_result, w_err, scan_env, led_state, blink_timer, live_timers>>
    /\ UNCHANGED <<ncalls, callid, consumed, req_tag, resp_tag, cyc, cycles,
                   cyc_starts, cyc_resets, cyc_disc, phase, start_fail, console>>
    /\ UNCHANGED <<ut, qvars>>

\* Variant of RequestScanTimeout: the wait has no expiry (portMAX_DELAY).
RequestScanTimeout_NoExpiry(t) ==
    /\ pc[t] = "rs_wait"
    /\ FALSE
    /\ UNCHANGED vars
    /\ UNCHANGED <<ut, qvars>>

\* xSemaphoreTake(g_complete_sem, timeout) expires with no signal: returns false.
RequestScanTimeout(t) ==
    /\ pc[t] = "rs_wait"
    /\ CanRun(t)
    /\ g_complete_sem.count = 0
    /\ ret' = [ret EXCEPT ![t] = "false"]
    /\ timedout' = TRUE
    /\ pc' = [pc EXCEPT ![t] = "to_msg"]
    /\ UNCHANGED <<bufs, pr_i, g_request_sem, g_complete_sem, g_result_ptr, wpc,
                   w_result, w_err, scan_active, scan_env, led_state, blink_timer,
                   live_timers>>
    /\ UNCHANGED <<ncalls, callid, consumed, req_tag, resp_tag, cyc, cycles,
                   cyc_starts, cyc_resets, cyc_disc, phase, start_fail, console>>
    /\ UNCHANGED <<ut, qvars>>

\* ------------------------------------------------ main_task: rendering
\* print_results: the test of result.success (line 45) and the header.
PrintResultsCheck ==
    /\ pc["main"] = "pr_check"
    /\ CanRun("main")
    /\ phase' = [phase EXCEPT ![callid["main"]] = Ev.read]
    /\ IF ~bufs["main"].success
       THEN /\ pc' = [pc EXCEPT !["main"] = "pr_fail"]
            /\ UNCHANGED <<pr_i, console>>
       ELSE /\ console' = Append(console, Line("header", 0))
            /\ pr_i' = 0
            /\ pc' = [pc EXCEPT !["main"] = "pr_rows"]
    /\ UNCHANGED <<bufs, g_request_sem, g_complete_sem, g_result_ptr, wpc, w_result,
                   w_err, scan_active, scan_env, led_state, blink_timer, live_timers>>
    /\ UNCHANGED <<ncalls, callid, ret, consumed, req_tag, resp_tag, cyc, cycles,
                   cyc_starts, cyc_resets, cyc_disc, timedout, start_fail>>
    /\ UNCHANGED <<ut, qvars>>

\* Variant of PrintResultsFail: the return after the failure line is missing.
PrintResultsFail_NoReturn ==
    /\ pc["main"] = "pr_fail"
    /\ CanRun("main")
    /\ console' = Append(Append(console, Line("failed", bufs["main"].error_code)),
                         Line("header", 0))
    /\ pr_i' = 0
    /\ pc' = [pc EXCEPT !["main"] = "pr_rows"]
    /\ UNCHANGED <<bufs, g_request_sem, g_complete_sem, g_result_ptr, wpc,
                   w_result, w_err, scan_active, scan_env, led_state, blink_timer,
                   live_timers>>
    /\ UNCHANGED <<ncalls, callid, ret, consumed, req_tag, resp_tag, cyc, cycles,
                   cyc_starts, cyc_resets, cyc_disc, timedout, phase, start_fail>>
    /\ UNCHANGED <<ut, qvars>>

\* print_results: "Scan failed (error: %d)" with result.error_code, and return.
PrintResultsFail ==
    /\ pc["main"] = "pr_fail"
    /\ CanRun("main")
    /\ console' = Append(console, Line("failed", bufs["main"].error_code))
    /\ pc' = [pc EXCEPT !["main"] = "sleep"]
    /\ UNCHANGED <<bufs, pr_i, g_request_sem, g_complete_sem, g_result_ptr, wpc,
                   w_result, w_err, scan_active, scan_env, led_state, blink_timer,
                   live_timers>>
    /\ UNCHANGED <<ncalls, callid, ret, consumed, req_tag, resp_tag, cyc, cycles,
                   cyc_starts, cyc_resets, cyc_disc, timedout, phase, start_fail>>
    /\ UNCHANGED <<ut, qvars>>

\* Variant of PrintResultsRow: the loop runs while i <= result.count.
PrintResultsRow_OffByOne ==
    /\ pc["main"] = "pr_rows"
    /\ CanRun("main")
    /\ IF pr_i <= bufs["main"].count
       THEN /\ console' = Append(console, Line("row", pr_i))
            /\ pr_i' = pr_i + 1
            /\ UNCHANGED pc
       ELSE /\ console' = Append(console, Line("found", bufs["main"].count))
            /\ pc' = [pc EXCEPT !["main"] = "sleep"]
            /\ UNCHANGED pr_i
    /\ UNCHANGED <<bufs, g_request_sem, g_complete_sem, g_result_ptr, wpc, w_result,
                   w_err, scan_active, scan_env, led_state, blink_timer, live_timers>>
    /\ UNCHANGED <<ncalls, callid, ret, consumed, req_tag, resp_tag, cyc, cycles,
                   cyc_starts, cyc_resets, cyc_disc, timedout, phase, start_fail>>
    /\ UNCHANGED <<ut, qvars>>

\* print_results: one turn of the loop of line 54, or "Found %u networks".
PrintResultsRow ==
    /\ pc["main"] = "pr_rows"
    /\ CanRun("main")
    /\ IF pr_i < bufs["main"].count
       THEN /\ console' = Append(console, Line("row", pr_i))
            /\ pr_i' = pr_i + 1
            /\ UNCHANGED pc
       ELSE /\ console' = Append(console, Line("found", bufs["main"].count))
            /\ pc' = [pc EXCEPT !["main"] = "sleep"]
            /\ UNCHANGED pr_i
    /\ UNCHANGED <<bufs, g_request_sem, g_complete_sem, g_result_ptr, wpc, w_result,
                   w_err, scan_active, scan_env, led_state, blink_timer, live_timers>>
    /\ UNCHANGED <<ncalls, callid, ret, consumed, req_tag, resp_tag, cyc, cycles,
                   cyc_starts, cyc_resets, cyc_disc, timedout, phase, start_fail>>
    /\ UNCHANGED <<ut, qvars>>

\* main_task: "Scan timeout!" after request_scan returned false.
PrintTimeout ==
    /\ pc["main"] = "to_msg"
    /\ CanRun("main")
    /\ console' = Append(console, Line("timeout", 0))
    /\ pc' = [pc EXCEPT !["main"] = "sleep"]
    /\ UNCHANGED <<bufs, pr_i, g_request_sem, g_complete_sem, g_result_ptr, wpc,
                   w_result, w_err, scan_active, scan_env, led_state, blink_timer,
                   live_timers>>
    /\ UNCHANGED <<ncalls, callid, ret, consumed, req_tag, resp_tag, cyc, cycles,
                   cyc_starts, cyc_resets, cyc_disc, timedout, phase, start_fail>>
    /\ UNCHANGED <<ut, qvars>>

\* main_task: vTaskDelay(SCAN_INTERVAL_MS) ends and the loop starts over.
Sleep ==
    /\ pc["main"] = "sleep"
    /\ CanRun("main")
    /\ pc' = [pc EXCEPT !["main"] = "call"]
    /\ UNCHANGED <<bufs, pr_i, g_request_sem, g_complete_sem, g_result_ptr, wpc,
                   w_result, w_err, scan_active, scan_env, led_state, blink_timer,
                   live_timers>>
    /\ UNCHANGED hist
    /\ UNCHANGED <<ut, qvars>>

\* --------------------------------------------------------- scanner_task
\* Variant of WorkerTake: the request signal is observed but not consumed.
WorkerTake_NoConsume ==
    /\ wpc = "wait_req"
    /\ g_request_sem.count = 1
    /\ w_result' = g_result_ptr
    /\ cyc' = req_tag
    /\ wpc' = "ds_reset"
    /\ cycles' = cycles + 1
    /\ cyc_starts' = 0
    /\ cyc_resets' = 0
    /\ cyc_disc' = 0
    /\ UNCHANGED <<pc, bufs, pr_i, g_request_sem, g_complete_sem, g_result_ptr, w_err,
                   scan_active, scan_env, led_state, blink_timer, live_timers>>
    /\ UNCHANGED <<ncalls, callid, ret, consumed, req_tag, resp_tag, timedout, phase,
                   start_fail, console>>
    /\ UNCHANGED <<ut, qvars>>

\* xSemaphoreTake(g_request_sem, portMAX_DELAY) and the read of g_result_ptr.
WorkerTake ==
    /\ wpc = "wait_req"
    /\ g_request_sem.count = 1
    /\ g_request_sem' = [g_request_sem EXCEPT !.count = 0]
    /\ w_result' = g_result_ptr
    /\ cyc' = req_tag
    /\ req_tag' = 0
    /\ IF g_result_ptr # NullPtr
       THEN /\ wpc' = "ds_reset"
            /\ cycles' = cycles + 1
            /\ cyc_starts' = 0
            /\ cyc_resets' = 0
            /\ cyc_disc' = 0
       ELSE /\ wpc' = "give"
            /\ UNCHANGED <<cycles, cyc_starts, cyc_resets, cyc_disc>>
    /\ UNCHANGED <<pc, bufs, pr_i, g_complete_sem, g_result_ptr, w_err, scan_active,
                   scan_env, led_state, blink_timer, live_timers>>
    /\ UNCHANGED <<ncalls, callid, ret, consumed, resp_tag, timedout, phase,
                   start_fail, console>>
    /\ UNCHANGED <<ut, qvars>>

\* Variant of DoScanReset: do_scan goes on to the LED without reset().
DoScanReset_Skip ==
    /\ wpc = "ds_reset"
    /\ wpc' = "ds_blink"
    /\ UNCHANGED <<pc, bufs, pr_i, g_request_sem, g_complete_sem, g_result_ptr,
                   w_result, w_err, scan_active, scan_env, led_state, blink_timer,
                   live_timers>>
    /\ UNCHANGED hist
    /\ UNCHANGED <<ut, qvars>>

\* do_scan: result->reset().
DoScanReset ==
    /\ wpc = "ds_reset"
    /\ bufs' = [bufs EXCEPT ![w_result] = reset(bufs[w_result])]
    /\ phase' = [phase EXCEPT ![cyc] = Ev.reset]
    /\ wpc' = "ds_blink"
    /\ UNCHANGED <<pc, pr_i, g_request_sem, g_complete_sem, g_result_ptr, w_result,
                   w_err, scan_active, scan_env, led_state, blink_timer, live_timers>>
    /\ UNCHANGED <<ncalls, callid, ret, consumed, req_tag, resp_tag, cyc, cycles,
                   cyc_starts, cyc_disc, timedout, start_fail, console>>
    /\ cyc_resets' = cyc_resets + 1
    /\ UNCHANGED <<ut, qvars>>

\* do_scan: led::start_blink(LED_BLINK_INTERVAL_MS).
DoScanStartBlink ==
    /\ wpc = "ds_blink"
    /\ \E created \in BOOLEAN : SetLed(start_blink(created))
    /\ wpc' = "ds_start"
    /\ UNCHANGED <<pc, bufs, pr_i, g_request_sem, g_complete_sem, g_result_ptr,
                   w_result, w_err, scan_active, scan_env>>
    /\ UNCHANGED hist
    /\ UNCHANGED <<ut, qvars>>

\* Variant of DoScanStart: a failed start is tried again.
DoScanStart_Retry ==
    /\ wpc = "ds_start"
    /\ \E err \in StartErrors :
         /\ w_err' = err
         /\ IF err # 0
            THEN /\ wpc' = "ds_start"
                 /\ start_fail' = start_fail \cup {<<cyc, err>>}
                 /\ UNCHANGED <<scan_active, scan_env>>
            ELSE /\ wpc' = "ds_poll"
                 /\ scan_active' = TRUE
                 /\ scan_env' = w_result
                 /\ UNCHANGED start_fail
    /\ cyc_starts' = IF cyc_starts < 2 THEN cyc_starts + 1 ELSE cyc_starts
    /\ UNCHANGED <<pc, bufs, pr_i, g_request_sem, g_complete_sem, g_result_ptr,
                   w_result, led_state, blink_timer, live_timers>>
    /\ UNCHANGED <<ncalls, callid, ret, consumed, req_tag, resp_tag, cyc, cycles,
                   cyc_resets, cyc_disc, timedout, phase, console>>
    /\ UNCHANGED <<ut, qvars>>

\* Variant of DoScanStart: success is set as soon as the radio has started.
DoScanStart_EarlySuccess ==
    /\ wpc = "ds_start"
    /\ \E err \in StartErrors :
         /\ w_err' = err
         /\ IF err # 0
            THEN /\ wpc' = "ds_err_stop"
                 /\ start_fail' = start_fail \cup {<<cyc, err>>}
                 /\ UNCHANGED <<scan_active, scan_env, bufs>>
            ELSE /\ wpc' = "ds_poll"
                 /\ scan_active' = TRUE
                 /\ scan_env' = w_result
                 /\ bufs' = [bufs EXCEPT ![w_result].success = TRUE]
                 /\ UNCHANGED start_fail
    /\ cyc_starts' = cyc_starts + 1
    /\ UNCHANGED <<pc, pr_i, g_request_sem, g_complete_sem, g_result_ptr,
                   w_result, led_state, blink_timer, live_timers>>
    /\ UNCHANGED <<ncalls, callid, ret, consumed, req_tag, resp_tag, cyc, cycles,
                   cyc_resets, cyc_disc, timedout, phase, console>>
    /\ UNCHANGED <<ut, qvars>>

\* do_scan: cyw43_wifi_scan(&cyw43_state, &scan_options, result, callback).
DoScanStart ==
    /\ wpc = "ds_start"
    /\ \E err \in StartErrors :
         /\ w_err' = err
         /\ IF err # 0
            THEN /\ wpc' = "ds_err_stop"
                 /\ start_fail' = start_fail \cup {<<cyc, err>>}
                 /\ UNCHANGED <<scan_active, scan_env>>
            ELSE /\ wpc' = "ds_poll"
                 /\ scan_active' = TRUE
                 /\ scan_env' = w_result
                 /\ UNCHANGED start_fail
    /\ cyc_starts' = cyc_starts + 1
    /\ UNCHANGED <<pc, bufs, pr_i, g_request_sem, g_complete_sem, g_result_ptr,
                   w_result, led_state, blink_timer, live_timers>>
    /\ UNCHANGED <<ncalls, callid, ret, consumed, req_tag, resp_tag, cyc, cycles,
                   cyc_resets, cyc_disc, timedout, phase, console>>
    /\ UNCHANGED <<ut, qvars>>

\* Variant of DoScanErrStop: the error path forgets led::stop_blink().
DoScanErrStop_NoStop ==
    /\ wpc = "ds_err_stop"
    /\ wpc' = "ds_err_code"
    /\ UNCHANGED <<pc, bufs, pr_i, g_request_sem, g_complete_sem, g_result_ptr,
                   w_result, w_err, scan_active, scan_env, led_state, blink_timer,
                   live_timers>>
    /\ UNCHANGED hist
    /\ UNCHANGED <<ut, qvars>>

\* do_scan, start failed: led::stop_blink().
DoScanErrStop ==
    /\ wpc = "ds_err_stop"
    /\ SetLed(stop_blink)
    /\ wpc' = "ds_err_code"
    /\ UNCHANGED <<pc, bufs, pr_i, g_request_sem, g_complete_sem, g_result_ptr,
                   w_result, w_err, scan_active, scan_env>>
    /\ UNCHANGED hist
    /\ UNCHANGED <<ut, qvars>>

\* Variant of DoScanErrCode: after a failed start the worker goes back to its
\* take without raising the response.
DoScanErrCode_NoGive ==
    /\ wpc = "ds_err_code"
    /\ bufs' = [bufs EXCEPT ![w_result].error_code = w_err]
    /\ phase' = [phase EXCEPT ![cyc] = Ev.status]
    /\ wpc' = "wait_req"
    /\ UNCHANGED <<pc, pr_i, g_request_sem, g_complete_sem, g_result_ptr, w_result,
                   w_err, scan_active, scan_env, led_state, blink_timer, live_timers>>
    /\ UNCHANGED <<ncalls, callid, ret, consumed, req_tag, resp_tag, cyc, cycles,
                   cyc_starts, cyc_resets, cyc_disc, timedout, start_fail, console>>
    /\ UNCHANGED <<ut, qvars>>

\* do_scan, start failed: result->error_code = err; return.
DoScanErrCode ==
    /\ wpc = "ds_err_code"
    /\ bufs' = [bufs EXCEPT ![w_result].error_code = w_err]
    /\ phase' = [phase EXCEPT ![cyc] = Ev.status]
    /\ wpc' = "give"
    /\ UNCHANGED <<pc, pr_i, g_request_sem, g_complete_sem, g_result_ptr, w_result,
                   w_err, scan_active, scan_env, led_state, blink_timer, live_timers>>
    /\ UNCHANGED <<ncalls, callid, ret, consumed, req_tag, resp_tag, cyc, cycles,
                   cyc_starts, cyc_resets, cyc_disc, timedout, start_fail, console>>
    /\ UNCHANGED <<ut, qvars>>

\* Variant of DoScanPoll: the loop condition is inverted.
DoScanPoll_Inverted ==
    /\ wpc = "ds_poll"
    /\ wpc' = IF scan_active THEN "ds_stop" ELSE "ds_delay"
    /\ UNCHANGED <<pc, bufs, pr_i, g_request_sem, g_complete_sem, g_result_ptr,
                   w_result, w_err, scan_active, scan_env, led_state, blink_timer,
                   live_timers>>
    /\ UNCHANGED hist
    /\ UNCHANGED <<ut, qvars>>

\* Variant of DoScanPoll: do_scan does not wait for the radio to report idle.
DoScanPoll_NoWait ==
    /\ wpc = "ds_poll"
    /\ wpc' = "ds_stop"
    /\ UNCHANGED <<pc, bufs, pr_i, g_request_sem, g_complete_sem, g_result_ptr,
                   w_result, w_err, scan_active, scan_env, led_state, blink_timer,
                   live_timers>>
    /\ UNCHANGED hist
    /\ UNCHANGED <<ut, qvars>>

\* do_scan: the test of the poll loop, cyw43_wifi_scan_active(&cyw43_state).
DoScanPoll ==
    /\ wpc = "ds_poll"
    /\ wpc' = IF scan_active THEN "ds_delay" ELSE "ds_stop"
    /\ UNCHANGED <<pc, bufs, pr_i, g_request_sem, g_complete_sem, g_result_ptr,
                   w_result, w_err, scan_active, scan_env, led_state, blink_timer,
                   live_timers>>
    /\ UNCHANGED hist
    /\ UNCHANGED <<ut, qvars>>

\* do_scan: vTaskDelay(SCAN_POLL_INTERVAL_MS) ends.
DoScanDelay ==
    /\ wpc = "ds_delay"
    /\ wpc' = "ds_poll"
    /\ UNCHANGED <<pc, bufs, pr_i, g_request_sem, g_complete_sem, g_result_ptr,
                   w_result, w_err, scan_active, scan_env, led_state, blink_timer,
                   live_timers>>
    /\ UNCHANGED hist
    /\ UNCHANGED <<ut, qvars>>

\* Variant of DoScanStopBlink: the radio-idle path forgets led::stop_blink().
DoScanStopBlink_Skip ==
    /\ wpc = "ds_stop"
    /\ wpc' = "ds_success"
    /\ UNCHANGED <<pc, bufs, pr_i, g_request_sem, g_complete_sem, g_result_ptr,
                   w_result, w_err, scan_active, scan_env, led_state, blink_timer,
                   live_timers>>
    /\ UNCHANGED hist
    /\ UNCHANGED <<ut, qvars>>

\* do_scan, radio idle: led::stop_blink().
DoScanStopBlink ==
    /\ wpc = "ds_stop"
    /\ SetLed(stop_blink)
    /\ wpc' = "ds_success"
    /\ UNCHANGED <<pc, bufs, pr_i, g_request_sem, g_complete_sem, g_result_ptr,
                   w_result, w_err, scan_active, scan_env>>
    /\ UNCHANGED hist
    /\ UNCHANGED <<ut, qvars>>

\* do_scan, radio idle: result->success = true; return.
DoScanSuccess ==
    /\ wpc = "ds_success"
    /\ bufs' = [bufs EXCEPT ![w_result].success = TRUE]
    /\ phase' = [phase EXCEPT ![cyc] = Ev.status]
    /\ wpc' = "give"
    /\ UNCHANGED <<pc, pr_i, g_request_sem, g_complete_sem, g_result_ptr, w_result,
                   w_err, scan_active, scan_env, led_state, blink_timer, live_timers>>
    /\ UNCHANGED <<ncalls, callid, ret, consumed, req_tag, resp_tag, cyc, cycles,
                   cyc_starts, cyc_resets, cyc_disc, timedout, start_fail, console>>
    /\ UNCHANGED <<ut, qvars>>

\* scanner_task: xSemaphoreGive(g_complete_sem), then back to the take.
WorkerGive ==
    /\ wpc = "give"
    /\ g_complete_sem' = [g_complete_sem EXCEPT !.count = 1]
    /\ resp_tag' = cyc
    /\ phase' = [phase EXCEPT ![cyc] = Ev.response]
    /\ cyc' = 0
    /\ wpc' = "wait_req"
    /\ UNCHANGED <<pc, bufs, pr_i, g_request_sem, g_result_ptr, w_result, w_err,
                   scan_active, scan_env, led_state, blink_timer, live_timers>>
    /\ UNCHANGED <<ncalls, callid, ret, consumed, req_tag, cycles, cyc_starts, cyc_resets,
                   cyc_disc, timedout, start_fail, console>>
    /\ UNCHANGED <<ut, qvars>>

\* ---------------------------------------------------------------- radio
\* The driver reports one discovery of the running scan to the callback.
RadioDiscovery ==
    /\ scan_active
    /\ cyc_disc < MaxDisc
    /\ \E d \in Discoveries :
         LET after == scan_result_callback(bufs[scan_env], d)
         IN  /\ bufs' = [bufs EXCEPT ![scan_env] = after]
             /\ phase' = IF after # bufs[scan_env]
                         THEN [phase EXCEPT ![cyc] = Ev.add]
                         ELSE phase
    /\ cyc_disc' = cyc_disc + 1
    /\ UNCHANGED <<pc, pr_i, g_request_sem, g_complete_sem, g_result_ptr, wpc,
                   w_result, w_err, scan_active, scan_env, led_state, blink_timer,
                   live_timers>>
    /\ UNCHANGED <<ncalls, callid, ret, consumed, req_tag, resp_tag, cyc, cycles,
                   cyc_starts, cyc_resets, timedout, start_fail, console>>
    /\ UNCHANGED <<ut, qvars>>

\* The scan ends: cyw43_wifi_scan_active() reports idle from now on.
RadioIdle ==
    /\ scan_active
    /\ scan_active' = FALSE
    /\ UNCHANGED <<pc, bufs, pr_i, g_request_sem, g_complete_sem, g_result_ptr, wpc,
                   w_result, w_err, scan_env, led_state, blink_timer, live_timers>>
    /\ UNCHANGED hist
    /\ UNCHANGED <<ut, qvars>>

\* -------------------------------------------------------- specification
Requester ==
    \/ InitWifi
    \/ StartScannerTask
    \/ \E t \in Tasks : RequestScanEnter(t)
    \/ \E t \in Tasks : RequestScanGive(t)
    \/ \E t \in Tasks : RequestScanTake(t)
    \/ \E t \in Tasks : RequestScanTimeout(t)
    \/ PrintResultsCheck
    \/ PrintResultsFail
    \/ PrintResultsRow
    \/ PrintTimeout
    \/ Sleep

Worker ==
    \/ WorkerTake
    \/ DoScanReset
    \/ DoScanStartBlink
    \/ DoScanStart
    \/ DoScanErrStop
    \/ DoScanErrCode
    \/ DoScanPoll
    \/ DoScanDelay
    \/ DoScanStopBlink
    \/ DoScanSuccess
    \/ WorkerGive

Next ==
    \/ Requester
    \/ Worker
    \/ RadioDiscovery
    \/ RadioIdle
    \/ BlinkTick

Spec == Init /\ [][Next]_vars

\* Fair scheduling: the scanner task runs whenever it is ready (it has the
\* highest priority and its delays end); main_task runs in the intervals the
\* scanner task spends blocked, which recur, and its own waits are bounded by
\* the tick.  The radio is not required to ever report idle.
FairSpec == Spec /\ SF_vars(Requester) /\ WF_vars(Worker)

\* FairSpec with a radio whose scans end.
LiveSpec == FairSpec /\ WF_vars(RadioIdle)

\* ------------------------------------------------------ the exerciser
\* A second specification drives one ScanResult directly with the operations
\* of scan_msg.hpp and the discovery callback, the way test_unit.cpp and the
\* scan workflow tests do, over the streams above.  A run is of one kind:
\*   "adds"  add() calls on a buffer that starts empty, with any status
\*           fields;
\*   "scan"  scan cycles as do_scan performs them on the buffer: reset(),
\*           then the callbacks of `cut` discoveries and success = true, or
\*           a failed start and the error code;
\*   "auth"  one call of auth_mode_from_cyw43 on a mask.
\*   "str"   one call of auth_mode_to_string on an AuthMode value.
UtStarts ==
    {[UtOff EXCEPT !.mode = "adds", !.seed = s,
                   !.r = [ScanResultDefault EXCEPT !.success = b, !.error_code = e]] :
         s \in UnitSeeds, b \in BOOLEAN, e \in StartErrors}
    \cup {[UtOff EXCEPT !.mode = "scan", !.seed = s, !.cut = c] :
              s \in UnitSeeds, c \in UnitCuts}
    \cup {[UtOff EXCEPT !.mode = "auth", !.mask = m] : m \in 0..255}
    \cup {[UtOff EXCEPT !.mode = "str", !.mask = m] : m \in 0..255}

UnitInit == SysInit /\ ut \in UtStarts

\* result.add(ap) on the next record of the stream, unfiltered.
UtAdd ==
    /\ ut.mode = "adds"
    /\ ut.i < MaxUnitOps
    /\ ut' = [ut EXCEPT !.r = add(ut.r, BuildAP(UnitRecord(ut.seed, ut.i + 1))),
                        !.retv = add_ret(ut.r),
                        !.i = ut.i + 1,
                        !.op = "add"]
    /\ UNCHANGED <<prog, hist, qvars>>

\* do_scan: result->reset() opens a cycle.
UtReset ==
    /\ ut.mode = "scan"
    /\ ut.op \in {"init", "finish"}
    /\ ut' = [ut EXCEPT !.r = reset(ut.r), !.from = ut.i, !.op = "reset"]
    /\ UNCHANGED <<prog, hist, qvars>>

\* The radio reports the next record of the stream to scan_result_callback.
UtCallback ==
    /\ ut.mode = "scan"
    /\ ut.op \in {"reset", "callback"}
    /\ ut.i - ut.from < ut.cut
    /\ ut.i < MaxUnitOps
    /\ ut' = [ut EXCEPT !.r = scan_result_callback(ut.r, UnitRecord(ut.seed, ut.i + 1)),
                        !.rc = scan_result_callback_ret(ut.r, UnitRecord(ut.seed, ut.i + 1)),
                        !.i = ut.i + 1,
                        !.op = "callback"]
    /\ UNCHANGED <<prog, hist, qvars>>

\* do_scan's status write closes the cycle: error_code = err right after the
\* reset when the start failed, success = true when the scan has ended.
UtFinish ==
    /\ ut.mode = "scan"
    /\ \/ /\ ut.op = "reset"
          /\ \E err \in StartErrors \ {0} :
                ut' = [ut EXCEPT !.r.error_code = err, !.op = "finish"]
       \/ /\ ut.op \in {"reset", "callback"}
          /\ ut.i - ut.from = ut.cut \/ ut.i = MaxUnitOps
          /\ ut' = [ut EXCEPT !.r.success = TRUE, !.op = "finish"]
    /\ UNCHANGED <<prog, hist, qvars>>

\* auth_mode_from_cyw43(mask).
UtClassify ==
    /\ ut.mode = "auth"
    /\ ut.op = "init"
    /\ ut' = [ut EXCEPT !.cls = auth_mode_from_cyw43(ut.mask), !.op = "classify"]
    /\ UNCHANGED <<prog, hist, qvars>>

\* auth_mode_to_string(static_cast<AuthMode>(value)).
UtToString ==
    /\ ut.mode = "str"
    /\ ut.op = "init"
    /\ ut' = [ut EXCEPT !.cls = auth_mode_to_string(AuthModeOf(ut.mask)),
                        !.op = "to_string"]
    /\ UNCHANGED <<prog, hist, qvars>>

UnitNext ==
    \/ UtAdd
    \/ UtReset
    \/ UtCallback
    \/ UtFinish
    \/ UtClassify
    \/ UtToString

UnitSpec == UnitInit /\ [][UnitNext]_vars

\* -------------------------------------------------- the LED exerciser
\* A third specification calls the four operations of led.hpp in any order
\* on the indicator as it is after boot (LED off, no timer), with the timer
\* service ticking a started timer in between.  ut.op is the operation
\* called last, ut.was the mode it was called in, ut.i the number of calls,
\* ut.retv whether the last xTimerCreate returned a timer.
LedInit == SysInit /\ ut = [UtOff EXCEPT !.mode = "led"]

\* The mode the indicator is in: a blink timer exists, or the LED is steady.
LedMode == IF blink_timer THEN "Blinking" ELSE IF led_state THEN "SolidOn" ELSE "Off"

\* led::on().
LedOn ==
    /\ ut.mode = "led"
    /\ ut.i < MaxLedOps
    /\ SetLed(led_on)
    /\ ut' = [ut EXCEPT !.op = "on", !.i = ut.i + 1, !.was = LedMode]
    /\ UNCHANGED <<pc, bufs, pr_i, g_request_sem, g_complete_sem, g_result_ptr, wpc,
                   w_result, w_err, scan_active, scan_env>>
    /\ UNCHANGED hist
    /\ UNCHANGED qvars

\* led::off().
LedOff ==
    /\ ut.mode = "led"
    /\ ut.i < MaxLedOps
    /\ SetLed(led_off)
    /\ ut' = [ut EXCEPT !.op = "off", !.i = ut.i + 1, !.was = LedMode]
    /\ UNCHANGED <<pc, bufs, pr_i, g_request_sem, g_complete_sem, g_result_ptr, wpc,
                   w_result, w_err, scan_active, scan_env>>
    /\ UNCHANGED hist
    /\ UNCHANGED qvars

\* led::start_blink(interval_ms).
LedStartBlink ==
    /\ ut.mode = "led"
    /\ ut.i < MaxLedOps
    /\ \E created \in BOOLEAN :
         /\ SetLed(start_blink(created))
         /\ ut' = [ut EXCEPT !.op = "start_blink", !.i = ut.i + 1, !.retv = created,
                             !.was = LedMode]
    /\ UNCHANGED <<pc, bufs, pr_i, g_request_sem, g_complete_sem, g_result_ptr, wpc,
                   w_result, w_err, scan_active, scan_env>>
    /\ UNCHANGED hist
    /\ UNCHANGED qvars

\* led::stop_blink().
LedStopBlink ==
    /\ ut.mode = "led"
    /\ ut.i < MaxLedOps
    /\ SetLed(stop_blink)
    /\ ut' = [ut EXCEPT !.op = "stop_blink", !.i = ut.i + 1, !.was = LedMode]
    /\ UNCHANGED <<pc, bufs, pr_i, g_request_sem, g_complete_sem, g_result_ptr, wpc,
                   w_result, w_err, scan_active, scan_env>>
    /\ UNCHANGED hist
    /\ UNCHANGED qvars

LedNext ==
    \/ LedOn
    \/ LedOff
    \/ LedStartBlink
    \/ LedStopBlink
    \/ BlinkTick

LedSpec == LedInit /\ [][LedNext]_vars

\* ------------------------------------------------- two requester tasks
\* A fourth specification adds a second task that calls wifi::request_scan
\* with a buffer of its own ("a command task, network trigger", lines 26-29),
\* at main_task's priority.  It starts where start_scanner_task has
\* succeeded: both semaphores exist, scanner_task is blocked in its take, the
\* LED is on.  What a caller does with the outcome is left out: it goes on
\* to its next call.
DuoTasks == {"main", "aux"}

DuoInit ==
    /\ pc = [t \in DuoTasks |-> "call"]
    /\ bufs = [t \in DuoTasks |-> ScanResultDefault]
    /\ pr_i = 0
    /\ g_request_sem = [created |-> TRUE, count |-> 0]
    /\ g_complete_sem = [created |-> TRUE, count |-> 0]
    /\ g_result_ptr = NullPtr
    /\ wpc = "wait_req"
    /\ w_result = NullPtr
    /\ w_err = 0
    /\ scan_active = FALSE
    /\ scan_env = NullPtr
    /\ led_state = TRUE
    /\ blink_timer = FALSE
    /\ live_timers = 0
    /\ ncalls = 0
    /\ callid = [t \in DuoTasks |-> 0]
    /\ ret = [t \in DuoTasks |-> "none"]
    /\ consumed = [t \in DuoTasks |-> 0]
    /\ req_tag = 0
    /\ resp_tag = 0
    /\ cyc = 0
    /\ cycles = 0
    /\ cyc_starts = 0
    /\ cyc_resets = 0
    /\ cyc_disc = 0
    /\ timedout = FALSE
    /\ phase = [c \in CallIds |-> 0]
    /\ start_fail = {}
    /\ console = <<>>
    /\ ut = UtOff
    /\ s_result_queue = <<>>
    /\ wtpc = "none"
    /\ q_terms = 0

\* request_scan has returned to its caller, which comes back for another call.
DuoReturn(t) ==
    /\ pc[t] \in {"pr_check", "to_msg"}
    /\ CanRun(t)
    /\ pc' = [pc EXCEPT ![t] = "call"]
    /\ UNCHANGED <<bufs, pr_i, g_request_sem, g_complete_sem, g_result_ptr, wpc,
                   w_result, w_err, scan_active, scan_env, led_state, blink_timer,
                   live_timers>>
    /\ UNCHANGED hist
    /\ UNCHANGED <<ut, qvars>>

DuoRequester ==
    \/ \E t \in DuoTasks : RequestScanEnter(t)
    \/ \E t \in DuoTasks : RequestScanGive(t)
    \/ \E t \in DuoTasks : RequestScanTake(t)
    \/ \E t \in DuoTasks : RequestScanTimeout(t)
    \/ \E t \in DuoTasks : DuoReturn(t)

DuoNext ==
    \/ DuoRequester
    \/ Worker
    \/ RadioDiscovery
    \/ RadioIdle

DuoSpec == DuoInit /\ [][DuoNext]_vars

\* ------------------------------------------- rendering longer results
\* A fifth specification starts the firmware where main_task's first
\* request_scan has just returned true, in time, for a scan that stored
\* RenderCounts entries, and runs it on from there: print_results on that
\* buffer, then the later requests with all that Spec allows.
RenderCounts == {3, MAX_SCAN_RESULTS}

\* The buffer after a successful cycle that stored n entries.
Filled(n) ==
    [success |-> TRUE, error_code |-> 0, count |-> n,
     networks |-> [i \in 0..(MAX_SCAN_RESULTS - 1) |->
                     IF i < n
                     THEN [BuildAP(UnitRecord(0, 1)) EXCEPT !.bssid = i + 1]
                     ELSE APInfoDefault]]

RenderInit ==
    /\ \E n \in RenderCounts :
         /\ bufs = [t \in Tasks |-> Filled(n)]
         /\ cyc_disc = n
    /\ pc = [t \in Tasks |-> "pr_check"]
    /\ pr_i = 0
    /\ g_request_sem = [created |-> TRUE, count |-> 0]
    /\ g_complete_sem = [created |-> TRUE, count |-> 0]
    /\ g_result_ptr = "main"
    /\ wpc = "wait_req"
    /\ w_result = "main"
    /\ w_err = 0
    /\ scan_active = FALSE
    /\ scan_env = "main"
    /\ led_state = TRUE
    /\ blink_timer = FALSE
    /\ live_timers = 0
    /\ ncalls = 1
    /\ callid = [t \in Tasks |-> 1]
    /\ ret = [t \in Tasks |-> "true"]
    /\ consumed = [t \in Tasks |-> 1]
    /\ req_tag = 0
    /\ resp_tag = 0
    /\ cyc = 0
    /\ cycles = 1
    /\ cyc_starts = 1
    /\ cyc_resets = 1
    /\ timedout = FALSE
    /\ phase = [c \in CallIds |-> IF c = 1 THEN Ev.response ELSE 0]
    /\ start_fail = {}
    /\ console = <<>>
    /\ ut = UtOff
    /\ s_result_queue = <<>>
    /\ wtpc = "none"
    /\ q_terms = 0

RenderNext ==
    \/ \E t \in Tasks : RequestScanEnter(t)
    \/ \E t \in Tasks : RequestScanGive(t)
    \/ \E t \in Tasks : RequestScanTake(t)
    \/ \E t \in Tasks : RequestScanTimeout(t)
    \/ PrintResultsCheck
    \/ PrintResultsFail
    \/ PrintResultsRow
    \/ PrintTimeout
    \/ Sleep
    \/ Worker
    \/ RadioDiscovery
    \/ RadioIdle
    \/ BlinkTick

RenderSpec == RenderInit /\ [][RenderNext]_vars

\* ------------------------------------------------ callers of the API
\* A sixth specification has one task call the two functions of
\* wifi_scanner.hpp as any caller may: wifi::request_scan with its own buffer
\* or with a null pointer, before wifi::start_scanner_task, after a failed
\* one and after a successful one.  It starts where init_wifi() has returned
\* true.  ut.cls is the buffer argument of the last request_scan call.
ApiInit ==
    /\ pc = [t \in Tasks |-> "call"]
    /\ bufs = [t \in Tasks |-> ScanResultDefault]
    /\ pr_i = 0
    /\ g_request_sem = [created |-> FALSE, count |-> 0]
    /\ g_complete_sem = [created |-> FALSE, count |-> 0]
    /\ g_result_ptr = NullPtr
    /\ wpc = "none"
    /\ w_result = NullPtr
    /\ w_err = 0
    /\ scan_active = FALSE
    /\ scan_env = NullPtr
    /\ led_state = TRUE
    /\ blink_timer = FALSE
    /\ live_timers = 0
    /\ ncalls = 0
    /\ callid = [t \in Tasks |-> 0]
    /\ ret = [t \in Tasks |-> "none"]
    /\ consumed = [t \in Tasks |-> 0]
    /\ req_tag = 0
    /\ resp_tag = 0
    /\ cyc = 0
    /\ cycles = 0
    /\ cyc_starts = 0
    /\ cyc_resets = 0
    /\ cyc_disc = 0
    /\ timedout = FALSE
    /\ phase = [c \in CallIds |-> 0]
    /\ start_fail = {}
    /\ console = <<>>
    /\ ut = [UtOff EXCEPT !.mode = "api"]
    /\ s_result_queue = <<>>
    /\ wtpc = "none"
    /\ q_terms = 0

\* wifi::start_scanner_task(), called while no scanner task exists.
ApiStartScannerTask ==
    /\ ut.mode = "api"
    /\ pc["main"] = "call"
    /\ wpc = "none"
    /\ \E rs \in BOOLEAN, cs \in BOOLEAN, tk \in BOOLEAN :
         /\ g_request_sem' = [created |-> rs, count |-> 0]
         /\ g_complete_sem' = [created |-> cs, count |-> 0]
         /\ wpc' = IF rs /\ cs /\ tk THEN "wait_req" ELSE wpc
         /\ ut' = [ut EXCEPT !.op = "start_scanner_task", !.retv = rs /\ cs /\ tk]
    /\ UNCHANGED <<pc, bufs, pr_i, g_result_ptr, w_result, w_err, scan_active,
                   scan_env, led_state, blink_timer, live_timers>>
    /\ UNCHANGED hist
    /\ UNCHANGED qvars

\* Variant of ApiRequestScan: the guard does not test the buffer argument.
ApiRequestScan_NoNullCheck(t, b) ==
    /\ ut.mode = "api"
    /\ pc[t] = "call"
    /\ CanRun(t)
    /\ ncalls < MaxCalls
    /\ ncalls' = ncalls + 1
    /\ callid' = [callid EXCEPT ![t] = ncalls + 1]
    /\ consumed' = [consumed EXCEPT ![t] = 0]
    /\ console' = <<>>
    /\ ut' = [ut EXCEPT !.op = "request_scan", !.cls = b]
    /\ IF ~g_request_sem.created \/ ~g_complete_sem.created
       THEN /\ ret' = [ret EXCEPT ![t] = "false"]
            /\ pc' = [pc EXCEPT ![t] = "to_msg"]
            /\ UNCHANGED g_result_ptr
       ELSE /\ ret' = [ret EXCEPT ![t] = "none"]
            /\ g_result_ptr' = b
            /\ pc' = [pc EXCEPT ![t] = "rs_give"]
    /\ UNCHANGED <<bufs, pr_i, g_request_sem, g_complete_sem, wpc, w_result, w_err,
                   scan_active, scan_env, led_state, blink_timer, live_timers>>
    /\ UNCHANGED <<req_tag, resp_tag, cyc, cycles, cyc_starts, cyc_resets, cyc_disc,
                   timedout, phase, start_fail>>
    /\ UNCHANGED qvars

\* Variant of ApiRequestScan: the pointer is stored before the guard.
ApiRequestScan_StoreFirst(t, b) ==
    /\ ut.mode = "api"
    /\ pc[t] = "call"
    /\ CanRun(t)
    /\ ncalls < MaxCalls
    /\ ncalls' = ncalls + 1
    /\ callid' = [callid EXCEPT ![t] = ncalls + 1]
    /\ consumed' = [consumed EXCEPT ![t] = 0]
    /\ console' = <<>>
    /\ ut' = [ut EXCEPT !.op = "request_scan", !.cls = b]
    /\ g_result_ptr' = b
    /\ IF b = NullPtr \/ ~g_request_sem.created \/ ~g_complete_sem.created
       THEN /\ ret' = [ret EXCEPT ![t] = "false"]
            /\ pc' = [pc EXCEPT ![t] = "to_msg"]
       ELSE /\ ret' = [ret EXCEPT ![t] = "none"]
            /\ pc' = [pc EXCEPT ![t] = "rs_give"]
    /\ UNCHANGED <<bufs, pr_i, g_request_sem, g_complete_sem, wpc, w_result, w_err,
                   scan_active, scan_env, led_state, blink_timer, live_timers>>
    /\ UNCHANGED <<req_tag, resp_tag, cyc, cycles, cyc_starts, cyc_resets, cyc_disc,
                   timedout, phase, start_fail>>
    /\ UNCHANGED qvars

\* wifi::request_scan(b, timeout_ms): the guard of line 159 and the store of
\* line 163, for a buffer argument b that is the caller's buffer or null.
ApiRequestScan(t, b) ==
    /\ ut.mode = "api"
    /\ pc[t] = "call"
    /\ CanRun(t)
    /\ ncalls < MaxCalls
    /\ ncalls' = ncalls + 1
    /\ callid' = [callid EXCEPT ![t] = ncalls + 1]
    /\ consumed' = [consumed EXCEPT ![t] = 0]
    /\ console' = <<>>
    /\ ut' = [ut EXCEPT !.op = "request_scan", !.cls = b]
    /\ IF b = NullPtr \/ ~g_request_sem.created \/ ~g_complete_sem.created
       THEN /\ ret' = [ret EXCEPT ![t] = "false"]
            /\ pc' = [pc EXCEPT ![t] = "to_msg"]
            /\ UNCHANGED g_result_ptr
       ELSE /\ ret' = [ret EXCEPT ![t] = "none"]
            /\ g_result_ptr' = b
            /\ pc' = [pc EXCEPT ![t] = "rs_give"]
    /\ UNCHANGED <<bufs, pr_i, g_request_sem, g_complete_sem, wpc, w_result, w_err,
                   scan_active, scan_env, led_state, blink_timer, live_timers>>
    /\ UNCHANGED <<req_tag, resp_tag, cyc, cycles, cyc_starts, cyc_resets, cyc_disc,
                   timedout, phase, start_fail>>
    /\ UNCHANGED qvars

ApiNext ==
    \/ ApiStartScannerTask
    \/ \E t \in Tasks : \E b \in {t, NullPtr} : ApiRequestScan(t, b)
    \/ \E t \in Tasks : RequestScanGive(t)
    \/ \E t \in Tasks : RequestScanTake(t)
    \/ \E t \in Tasks : RequestScanTimeout(t)
    \/ \E t \in Tasks : DuoReturn(t)
    \/ Worker
    \/ RadioDiscovery
    \/ RadioIdle
    \/ BlinkTick

ApiSpec == ApiInit /\ [][ApiNext]_vars

\* ------------------------------------------ the queue-based variant
\* A seventh specification is the earlier firmware kept at the end of
\* main.cpp: wifi_task scans in a loop and publishes to s_result_queue one
\* WIFI_MSG_SCAN_RESULT per discovery (sent by scan_callback from the driver)
\* and a terminating message per scan; a console task, whose code is not
\* part of the sources, receives from the queue at any speed.  A message is
\* [type, v, cycle]: v is the error code of a WIFI_MSG_ERROR, the payload of
\* a scan result is left out, and cycle is history (the scan that sent it).
Msg(type, v, c) == [type |-> type, v |-> v, cycle |-> c]

\* xQueueSend(queue, &msg, 0): the queue after the call.
xQueueSend(q, msg) ==
    IF Len(q) < WIFI_SCAN_RESULT_QUEUE_LEN THEN Append(q, msg) ELSE q

\* xQueueSend(queue, &msg, 0) returns pdTRUE.
xQueueSend_ret(q) == Len(q) < WIFI_SCAN_RESULT_QUEUE_LEN

QueueInit ==
    /\ pc = [t \in Tasks |-> "halt"]
    /\ bufs = [t \in Tasks |-> ScanResultDefault]
    /\ pr_i = 0
    /\ g_request_sem = [created |-> FALSE, count |-> 0]
    /\ g_complete_sem = [created |-> FALSE, count |-> 0]
    /\ g_result_ptr = NullPtr
    /\ wpc = "none"
    /\ w_result = NullPtr
    /\ w_err = 0
    /\ scan_active = FALSE
    /\ scan_env = NullPtr
    /\ led_state = FALSE
    /\ blink_timer = FALSE
    /\ live_timers = 0
    /\ ncalls = 0
    /\ callid = [t \in Tasks |-> 0]
    /\ ret = [t \in Tasks |-> "none"]
    /\ consumed = [t \in Tasks |-> 0]
    /\ req_tag = 0
    /\ resp_tag = 0
    /\ cyc = 0
    /\ cycles = 0
    /\ cyc_starts = 0
    /\ cyc_resets = 0
    /\ cyc_disc = 0
    /\ timedout = FALSE
    /\ phase = [c \in CallIds |-> 0]
    /\ start_fail = {}
    /\ console = <<>>
    /\ ut = [UtOff EXCEPT !.mode = "queue"]
    /\ s_result_queue = <<>>
    /\ wtpc = "init"
    /\ q_terms = 0

\* wifi_task: cyw43_arch_init().
WifiTaskInit ==
    /\ wtpc = "init"
    /\ \E ok \in BOOLEAN : wtpc' = IF ok THEN "start" ELSE "init_error"
    /\ UNCHANGED <<pc, bufs, pr_i, g_request_sem, g_complete_sem, g_result_ptr, wpc, w_result, w_err, scan_active,
                   scan_env, led_state, blink_timer, live_timers>>
    /\ UNCHANGED <<ncalls, callid, ret, consumed, req_tag, resp_tag, cyc, cycles, cyc_disc,
                   cyc_starts, cyc_resets, timedout, phase, start_fail, console>>
    /\ UNCHANGED <<ut, s_result_queue, q_terms>>

\* wifi_task, init failed: xQueueSend(..., portMAX_DELAY) of WIFI_MSG_ERROR
\* with code -1, then vTaskDelete(NULL).
WifiTaskInitError ==
    /\ wtpc = "init_error"
    /\ Len(s_result_queue) < WIFI_SCAN_RESULT_QUEUE_LEN
    /\ s_result_queue' = Append(s_result_queue, Msg("WIFI_MSG_ERROR", -1, 0))
    /\ wtpc' = "deleted"
    /\ UNCHANGED <<pc, bufs, pr_i, g_request_sem, g_complete_sem, g_result_ptr, wpc, w_result, w_err, scan_active,
                   scan_env, led_state, blink_timer, live_timers>>
    /\ UNCHANGED <<ncalls, callid, ret, consumed, req_tag, resp_tag, cyc, cycles, cyc_disc,
                   cyc_starts, cyc_resets, timedout, phase, start_fail, console>>
    /\ UNCHANGED <<ut, q_terms>>

\* wifi_task: cyw43_wifi_scan(&cyw43_state, &scan_options, NULL, scan_callback).
WifiTaskStart ==
    /\ wtpc = "start"
    /\ cycles < MaxCalls
    /\ cycles' = cycles + 1
    /\ cyc_disc' = 0
    /\ q_terms' = 0
    /\ \E err \in StartErrors :
         /\ w_err' = err
         /\ IF err # 0
            THEN /\ wtpc' = "send_error"
                 /\ UNCHANGED scan_active
            ELSE /\ wtpc' = "poll"
                 /\ scan_active' = TRUE
    /\ UNCHANGED <<pc, bufs, pr_i, g_request_sem, g_complete_sem, g_result_ptr, wpc, w_result,
                   scan_env, led_state, blink_timer, live_timers>>
    /\ UNCHANGED <<ncalls, callid, ret, consumed, req_tag, resp_tag, cyc,
                   cyc_starts, cyc_resets, timedout, phase, start_fail, console>>
    /\ UNCHANGED <<ut, s_result_queue>>

\* wifi_task, start failed: xQueueSend(..., 0) of WIFI_MSG_ERROR with err.
WifiTaskSendError ==
    /\ wtpc = "send_error"
    /\ s_result_queue' = xQueueSend(s_result_queue, Msg("WIFI_MSG_ERROR", w_err, cycles))
    /\ q_terms' = IF xQueueSend_ret(s_result_queue) THEN q_terms + 1 ELSE q_terms
    /\ wtpc' = "sleep"
    /\ UNCHANGED <<pc, bufs, pr_i, g_request_sem, g_complete_sem, g_result_ptr, wpc, w_result, w_err, scan_active,
                   scan_env, led_state, blink_timer, live_timers>>
    /\ UNCHANGED <<ncalls, callid, ret, consumed, req_tag, resp_tag, cyc, cycles, cyc_disc,
                   cyc_starts, cyc_resets, timedout, phase, start_fail, console>>
    /\ UNCHANGED ut

\* wifi_task: the test of the loop on cyw43_wifi_scan_active(&cyw43_state).
WifiTaskPoll ==
    /\ wtpc = "poll"
    /\ wtpc' = IF scan_active THEN "delay" ELSE "send_complete"
    /\ UNCHANGED <<pc, bufs, pr_i, g_request_sem, g_complete_sem, g_result_ptr, wpc, w_result, w_err, scan_active,
                   scan_env, led_state, blink_timer, live_timers>>
    /\ UNCHANGED <<ncalls, callid, ret, consumed, req_tag, resp_tag, cyc, cycles, cyc_disc,
                   cyc_starts, cyc_resets, timedout, phase, start_fail, console>>
    /\ UNCHANGED <<ut, s_result_queue, q_terms>>

\* wifi_task: vTaskDelay(pdMS_TO_TICKS(100)) ends.
WifiTaskDelay ==
    /\ wtpc = "delay"
    /\ wtpc' = "poll"
    /\ UNCHANGED <<pc, bufs, pr_i, g_request_sem, g_complete_sem, g_result_ptr, wpc, w_result, w_err, scan_active,
                   scan_env, led_state, blink_timer, live_timers>>
    /\ UNCHANGED <<ncalls, callid, ret, consumed, req_tag, resp_tag, cyc, cycles, cyc_disc,
                   cyc_starts, cyc_resets, timedout, phase, start_fail, console>>
    /\ UNCHANGED <<ut, s_result_queue, q_terms>>

\* wifi_task, radio idle: xQueueSend(..., 0) of WIFI_MSG_SCAN_COMPLETE.
WifiTaskSendComplete ==
    /\ wtpc = "send_complete"
    /\ s_result_queue' = xQueueSend(s_result_queue, Msg("WIFI_MSG_SCAN_COMPLETE", 0, cycles))
    /\ q_terms' = IF xQueueSend_ret(s_result_queue) THEN q_terms + 1 ELSE q_terms
    /\ wtpc' = "sleep"
    /\ UNCHANGED <<pc, bufs, pr_i, g_request_sem, g_complete_sem, g_result_ptr, wpc, w_result, w_err, scan_active,
                   scan_env, led_state, blink_timer, live_timers>>
    /\ UNCHANGED <<ncalls, callid, ret, consumed, req_tag, resp_tag, cyc, cycles, cyc_disc,
                   cyc_starts, cyc_resets, timedout, phase, start_fail, console>>
    /\ UNCHANGED ut

\* wifi_task: vTaskDelay(pdMS_TO_TICKS(WIFI_SCAN_INTERVAL_MS)) ends.
WifiTaskSleep ==
    /\ wtpc = "sleep"
    /\ wtpc' = "start"
    /\ UNCHANGED <<pc, bufs, pr_i, g_request_sem, g_complete_sem, g_result_ptr, wpc, w_result, w_err, scan_active,
                   scan_env, led_state, blink_timer, live_timers>>
    /\ UNCHANGED <<ncalls, callid, ret, consumed, req_tag, resp_tag, cyc, cycles, cyc_disc,
                   cyc_starts, cyc_resets, timedout, phase, start_fail, console>>
    /\ UNCHANGED <<ut, s_result_queue, q_terms>>

\* The driver reports a discovery of the running scan, or a null record, to
\* scan_callback, which sends without blocking and drops on a full queue.
ScanCallback ==
    /\ scan_active
    /\ cyc_disc < MaxQDisc
    /\ cyc_disc' = cyc_disc + 1
    /\ \E d \in Discoveries :
         s_result_queue' = IF d.present
                           THEN xQueueSend(s_result_queue,
                                           Msg("WIFI_MSG_SCAN_RESULT", 0, cycles))
                           ELSE s_result_queue
    /\ UNCHANGED <<pc, bufs, pr_i, g_request_sem, g_complete_sem, g_result_ptr, wpc, w_result, w_err, scan_active,
                   scan_env, led_state, blink_timer, live_timers>>
    /\ UNCHANGED <<ncalls, callid, ret, consumed, req_tag, resp_tag, cyc, cycles,
                   cyc_starts, cyc_resets, timedout, phase, start_fail, console>>
    /\ UNCHANGED <<ut, wtpc, q_terms>>

\* The console task receives the oldest message (xQueueReceive).
ConsoleReceive ==
    /\ Len(s_result_queue) > 0
    /\ s_result_queue' = Tail(s_result_queue)
    /\ UNCHANGED <<pc, bufs, pr_i, g_request_sem, g_complete_sem, g_result_ptr, wpc, w_result, w_err, scan_active,
                   scan_env, led_state, blink_timer, live_timers>>
    /\ UNCHANGED <<ncalls, callid, ret, consumed, req_tag, resp_tag, cyc, cycles, cyc_disc,
                   cyc_starts, cyc_resets, timedout, phase, start_fail, console>>
    /\ UNCHANGED <<ut, wtpc, q_terms>>

WifiTask ==
    \/ WifiTaskInit
    \/ WifiTaskInitError
    \/ WifiTaskStart
    \/ WifiTaskSendError
    \/ WifiTaskPoll
    \/ WifiTaskDelay
    \/ WifiTaskSendComplete
    \/ WifiTaskSleep

QueueNext ==
    \/ WifiTask
    \/ ScanCallback
    \/ RadioIdle
    \/ ConsoleReceive

QueueSpec == QueueInit /\ [][QueueNext]_vars

\* ------------------------------------------------------------- claims
InPrintResults(t) == pc[t] \in {"pr_check", "pr_fail", "pr_rows"}

\* do_scan has run reset() and has not yet returned.
InDoScan == wpc \in {"ds_blink", "ds_start", "ds_err_stop", "ds_err_code",
                     "ds_poll", "ds_delay", "ds_stop", "ds_success"}

\* C1: whenever request_scan has returned true, the response it consumed was
\* raised by the scan cycle that this very call's request signal started.
C1_TrueMeansOwnCycleDone ==
    \A t \in Tasks : ret[t] = "true" => consumed[t] = callid[t]

\* C2: the requester is never inside print_results on its buffer while the
\* worker is inside do_scan on the same buffer.
C2_BufferNeverShared ==
    \A t \in Tasks : ~(InPrintResults(t) /\ InDoScan /\ w_result = t)

\* C3: the events of one scan cycle (reset, add, status write, response raise,
\* requester read) never occur out of that order.
C3_CycleOrder ==
    [][\A c \in CallIds : phase'[c] >= phase[c]]_vars

C5_TimeoutIsCallerSideOnly ==
    [][(\E t \in Tasks : pc[t] = "rs_wait" /\ pc'[t] = "to_msg")
         => UNCHANGED <<wpc, w_result, w_err, bufs, scan_active, scan_env, led_state,
                        blink_timer, live_timers, g_request_sem, g_complete_sem,
                        g_result_ptr, cyc, cycles, cyc_starts>>]_vars

\* The wait expired in the middle of a running scan, which goes on.
C5_Witness ==
    /\ pc["main"] = "to_msg"
    /\ timedout
    /\ wpc = "ds_delay"
    /\ scan_active
    /\ blink_timer

\* C6: (under LiveSpec, where the radio's scans end) a cycle the worker has
\* started ends with the response raised, and a buffer whose request timed
\* out during a started scan comes to show success.
C6_WorkerFinishesCycle ==
    /\ \A c \in CallIds : (cyc = c) ~> (cyc # c /\ wpc = "wait_req")
    /\ \A t \in Tasks :
         (ret[t] = "false" /\ w_result = t /\ wpc \in {"ds_poll", "ds_delay"})
            ~> bufs[t].success

\* The requester has given up on call 1, and the worker has since completed
\* that cycle with success.
C6_Witness ==
    /\ ret["main"] = "false"
    /\ callid["main"] = 1
    /\ cycles = 1
    /\ wpc = "wait_req"
    /\ bufs["main"].success
    /\ g_complete_sem.count = 1

\* C7: as long as no wait has expired, no request_scan returns false, a true
\* return consumes the response of the caller's own cycle, one cycle has been
\* run per request, and a cycle whose scan started and reported no discovery
\* hands back success = true and count = 0.
C7_InTimeCycles ==
    ~timedout =>
        /\ cycles + g_request_sem.count + Cardinality({t \in Tasks : pc[t] = "rs_give"}) = ncalls
        /\ \A t \in Tasks :
             /\ ret[t] # "false"
             /\ ret[t] = "true" => consumed[t] = callid[t] /\ cycles = ncalls
             /\ pc[t] = "pr_check" /\ w_err = 0 /\ cyc_disc = 0
                   => bufs[t].success /\ bufs[t].count = 0

\* The second request in a row has returned true after an empty scan.
C7_Witness ==
    /\ ~timedout
    /\ ncalls = 2
    /\ pc["main"] = "pr_check"
    /\ ret["main"] = "true"
    /\ w_err = 0
    /\ cyc_disc = 0
    /\ bufs["main"].success

IsResultList(s) ==
    /\ Len(s) >= 2
    /\ s[1].k = "header"
    /\ s[Len(s)].k = "found"
    /\ \A i \in 2..(Len(s) - 1) : s[i].k = "row"

IsFailure(s) == Len(s) = 1 /\ s[1].k = "failed"

IsTimeout(s) == Len(s) = 1 /\ s[1].k = "timeout"

\* C8: when an iteration of the main_task loop has rendered its output and the
\* next request is not yet issued, the console holds exactly one of: the result
\* list, the failure message, the timeout message.
C8_ExactlyOneOutput ==
    (pc["main"] \in {"sleep", "call"} /\ ncalls > 0) =>
        Cardinality({k \in {"list", "failure", "timeout"} :
            \/ k = "list" /\ IsResultList(console)
            \/ k = "failure" /\ IsFailure(console)
            \/ k = "timeout" /\ IsTimeout(console)}) = 1

\* A result list with at least one row has been rendered.
C8_Witness ==
    /\ pc["main"] = "sleep"
    /\ IsResultList(console)
    /\ Len(console) >= 3

\* C9: a rendered failure message carries the non-zero code that the radio
\* start call of this request's scan cycle returned.
C9_FailureOnlyForStartFailure ==
    \A i \in 1..Len(console) :
        console[i].k = "failed" =>
            /\ console[i].v # 0
            /\ <<callid["main"], console[i].v>> \in start_fail

\* C10: do_scan returns from a failed start with success = false, the error
\* code stored, no entry, the LED solid on with no timer, after one start
\* call; the worker then raises the response, and a requester that is waiting
\* with the response raised returns true.
C10_StartFailure ==
    /\ [](wpc = "give" /\ w_result # NullPtr /\ w_err # 0 =>
            /\ ~bufs[w_result].success
            /\ bufs[w_result].error_code = w_err
            /\ bufs[w_result].count = 0
            /\ led_state
            /\ ~blink_timer
            /\ live_timers = 0
            /\ cyc_starts = 1)
    /\ [][wpc = "give" /\ wpc' # "give" => g_complete_sem'.count = 1]_vars
    /\ [][\A t \in Tasks :
            pc[t] = "rs_wait" /\ g_complete_sem.count = 1 /\ pc'[t] # "rs_wait"
               => ret'[t] = "true"]_vars

\* do_scan has returned from a failed start while the requester waits.
C10_Witness ==
    /\ wpc = "give"
    /\ w_err = -5
    /\ pc["main"] = "rs_wait"
    /\ bufs["main"].error_code = -5

\* C11: the step that sets success = true in a buffer is taken by do_scan after
\* its poll has seen the radio idle and after stop_blink() (LED solid on, no
\* timer), and no buffer shows success while the radio scans into it.
C11_SuccessAfterIdleAndSolidOn ==
    /\ [](scan_active => ~bufs[scan_env].success)
    /\ [][\A t \in Tasks :
            bufs'[t].success /\ ~bufs[t].success
               => /\ wpc = "ds_success"
                  /\ w_result = t
                  /\ ~scan_active
                  /\ led_state
                  /\ ~blink_timer
                  /\ live_timers = 0]_vars

\* do_scan has returned success after a scan that blinked and stored an entry.
C11_Witness ==
    /\ wpc = "give"
    /\ w_err = 0
    /\ w_result = "main"
    /\ bufs["main"].success
    /\ bufs["main"].count = 1
    /\ ~scan_active
    /\ led_state
    /\ live_timers = 0

\* C12: request_scan raises the request signal only when no earlier request
\* signal is pending and the worker is not inside the cycle of an earlier
\* request (it is blocked in its take with no cycle in progress).
C12_OneOutstandingRequest ==
    [][\A t \in Tasks :
          pc[t] = "rs_give" /\ pc'[t] = "rs_wait"
             => /\ g_request_sem.count = 0
                /\ wpc = "wait_req"
                /\ cyc = 0]_vars

\* C13: the radio start call is made only with the radio idle, a scan becomes
\* active only by the worker's start call, and a do_scan execution begins only
\* when the worker is in its take, with no other execution in progress.
C13_ScansNeverOverlap ==
    /\ [](wpc = "ds_start" => ~scan_active)
    /\ [][scan_active' /\ ~scan_active => wpc = "ds_start" /\ wpc' = "ds_poll"]_vars
    /\ [][cyc_starts' # cyc_starts /\ wpc' # "ds_reset" => wpc = "ds_start" /\ ~scan_active]_vars
    /\ [][cycles' # cycles => wpc = "wait_req" /\ wpc' = "ds_reset" /\ ~scan_active]_vars

\* The second scan cycle is polling its own scan.
C13_Witness ==
    /\ cycles = 2
    /\ cyc_starts = 1
    /\ wpc = "ds_poll"
    /\ scan_active
    /\ scan_env = "main"

\* Number of request_scan calls that have raised the request signal: every
\* call that passed the guard of line 159 and is past the give of line 164.
RequestsRaised ==
    IF g_request_sem.created /\ g_complete_sem.created
    THEN ncalls - Cardinality({t \in Tasks : pc[t] = "rs_give"})
    ELSE 0

\* C14: the number of do_scan executions started never exceeds the number of
\* request_scan calls that have raised the request signal, and a do_scan
\* execution makes one radio start call: none before its start step, one from
\* then on until it returns.
C14_CycleOnlyOnRequest ==
    /\ cycles <= RequestsRaised
    /\ wpc \in {"ds_reset", "ds_blink", "ds_start"} => cyc_starts = 0
    /\ \/ wpc \in {"ds_err_stop", "ds_err_code", "ds_poll", "ds_delay", "ds_stop", "ds_success"}
       \/ wpc = "give" /\ w_result # NullPtr
       => cyc_starts = 1

\* The second do_scan has returned after its one start call; two requests
\* were raised.
C14_Witness ==
    /\ cycles = 2
    /\ RequestsRaised = 2
    /\ wpc = "give"
    /\ w_result # NullPtr
    /\ cyc_starts = 1

\* The scanner task is blocked in its take, no scan cycle in progress.
WorkerWaiting == wpc = "wait_req" /\ g_request_sem.count = 0 /\ cyc = 0

\* The scanner task is in the poll loop of do_scan with the radio scanning.
WorkerPolling == wpc \in {"ds_poll", "ds_delay"} /\ scan_active

C16_AddCapacity ==
    /\ [](ut.r.count <= MAX_SCAN_RESULTS)
    /\ [](is_full(ut.r) <=> ut.r.count >= 32)
    /\ [][ut'.op = "add" /\ ut'.i # ut.i =>
            IF ut.r.count = 32
            THEN ~ut'.retv /\ ut'.r.count = 32
            ELSE ut'.retv /\ ut'.r.count = ut.r.count + 1]_vars

\* add() has been called on a full buffer and returned false.
C16_Witness ==
    /\ ut.mode = "adds"
    /\ ut.op = "add"
    /\ ut.i > MAX_SCAN_RESULTS
    /\ ~ut.retv
    /\ ut.r.count = 32
    /\ is_full(ut.r)

\* C17: (under UnitSpec) reset() applied to a buffer in any state leaves
\* success = false, error_code = 0 and count = 0, and a second reset() of the
\* result changes nothing.
C17_ResetClears ==
    [][ut'.op = "reset" /\ ut.op # "reset" =>
         /\ ut'.r = reset(ut.r)
         /\ ~ut'.r.success
         /\ ut'.r.error_code = 0
         /\ ut'.r.count = 0
         /\ reset(ut'.r) = ut'.r]_vars

\* reset() has cleared a buffer that a finished scan had filled to capacity.
C17_Witness ==
    /\ ut.op = "reset"
    /\ ut.from = MaxUnitOps
    /\ ut.r.networks[MAX_SCAN_RESULTS - 1] # APInfoDefault
    /\ ut.r.count = 0
    /\ ~ut.r.success

\* C18: (under UnitSpec) auth_mode_from_cyw43 yields a classification for
\* every mask in 0..255: OPEN for 0, WEP for 1, and for any other mask
\* WPA_WPA2_PSK with bits 4 and 2 both set, WPA2_PSK with bit 4 only,
\* WPA_PSK with bit 2 only, UNKNOWN with neither.
C18_AuthFromMask ==
    ut.op = "classify" =>
        LET m == ut.mask
            b2 == m % 4 >= 2
            b4 == m % 8 >= 4
        IN  /\ m \in 0..255
            /\ ut.cls \in {"OPEN", "WEP", "WPA_PSK", "WPA2_PSK", "WPA_WPA2_PSK", "UNKNOWN"}
            /\ ut.cls = CASE m = 0 -> "OPEN"
                          [] m = 1 -> "WEP"
                          [] m > 1 /\ b4 /\ b2 -> "WPA_WPA2_PSK"
                          [] m > 1 /\ b4 /\ ~b2 -> "WPA2_PSK"
                          [] m > 1 /\ b2 /\ ~b4 -> "WPA_PSK"
                          [] m > 1 /\ ~b2 /\ ~b4 -> "UNKNOWN"

\* A mask with neither bit 2 nor bit 4, other than 0 and 1, was classified.
C18_Witness ==
    /\ ut.op = "classify"
    /\ ut.mask = 8
    /\ ut.cls = "UNKNOWN"

\* The record has no display name: ssid_len 0, or a first name byte of NUL.
EmptyName(d) == d.ssid_len = 0 \/ ByteAt(d.ssid, 1) = 0

\* C19: (under UnitSpec) the callback of a discovery with an empty display
\* name, whatever its other fields, leaves the buffer as it was: count and
\* every entry unchanged.
C19_EmptyNameNotStored ==
    [][ut'.op = "callback" /\ ut'.i # ut.i =>
         LET d == UnitRecord(ut.seed, ut'.i)
         IN  d.present /\ EmptyName(d) =>
                /\ ut'.r.count = ut.r.count
                /\ ut'.r.networks = ut.r.networks
                /\ ut'.r = ut.r]_vars

\* The callback has just handled a record whose name starts with NUL, with
\* room left in a buffer that holds entries.
C19_Witness ==
    /\ ut.op = "callback"
    /\ UnitRecord(ut.seed, ut.i).present
    /\ UnitRecord(ut.seed, ut.i).ssid_len > 0
    /\ EmptyName(UnitRecord(ut.seed, ut.i))
    /\ ut.r.count > 0
    /\ ~is_full(ut.r)
    /\ \A j \in 0..(ut.r.count - 1) : ut.r.networks[j].bssid # ut.i

\* C20: (under UnitSpec) when a scan cycle has ended, the buffer's entries
\* 0..count-1 are the first min(32, k) of the k discoveries with a display
\* name that the cycle reported, in the order reported, each with the
\* classification auth_mode_from_cyw43 gives its mask.
C20_FirstNamedInOrder ==
    ut.mode = "scan" /\ ut.op = "finish" =>
        LET Named(p) == UnitRecord(ut.seed, p).present /\ ~EmptyName(UnitRecord(ut.seed, p))
            ne == SelectSeq([p \in 1..(ut.i - ut.from) |-> ut.from + p], Named)
            n == Min(32, Len(ne))
        IN  /\ ut.r.count = n
            /\ \A j \in 1..n :
                 /\ ut.r.networks[j - 1].bssid = UnitRecord(ut.seed, ne[j]).bssid
                 /\ ut.r.networks[j - 1].rssi = UnitRecord(ut.seed, ne[j]).rssi
                 /\ ut.r.networks[j - 1].channel = UnitRecord(ut.seed, ne[j]).channel
                 /\ ut.r.networks[j - 1].auth =
                       auth_mode_from_cyw43(UnitRecord(ut.seed, ne[j]).auth_mode)

\* A cycle that reported more than 32 named discoveries, the first three
\* with masks 0, 1 and 6, has ended with success and a full buffer.
C20_Witness ==
    /\ ut.mode = "scan"
    /\ ut.op = "finish"
    /\ ut.r.success
    /\ ut.r.count = 32
    /\ Cardinality({p \in (ut.from + 1)..ut.i :
          UnitRecord(ut.seed, p).present /\ ~EmptyName(UnitRecord(ut.seed, p))}) > 32
    /\ UnitRecord(ut.seed, 1).auth_mode = 0
    /\ UnitRecord(ut.seed, 2).auth_mode = 1
    /\ UnitRecord(ut.seed, 3).auth_mode = 6
    /\ ut.r.networks[0].auth = "OPEN"
    /\ ut.r.networks[1].auth = "WEP"
    /\ ut.r.networks[2].auth = "WPA_WPA2_PSK"

\* Number of discoveries with a display name among records a+1..b of stream s.
NamedCount(s, a, b) ==
    Cardinality({p \in (a + 1)..b :
        UnitRecord(s, p).present /\ ~EmptyName(UnitRecord(s, p))})

\* C21: (under UnitSpec) a callback that finds the buffer full leaves count at
\* 32 and error_code at 0, error_code is 0 all through the callbacks of a
\* cycle, and a cycle that reported more than 32 named discoveries ends with
\* count = 32, error_code = 0 and success = true.
C21_OverflowIsNoError ==
    /\ [](ut.mode = "scan" /\ ut.op = "callback" => ut.r.error_code = 0 /\ ut.r.count <= 32)
    /\ [][ut'.op = "callback" /\ ut'.i # ut.i /\ ut.r.count = 32
            => ut'.r.count = 32 /\ ut'.r.error_code = 0 /\ ut'.r.networks = ut.r.networks]_vars
    /\ [](ut.mode = "scan" /\ ut.op = "finish" /\ NamedCount(ut.seed, ut.from, ut.i) > 32
            => ut.r.count = 32 /\ ut.r.error_code = 0 /\ ut.r.success)

\* A cycle has ended after its 33rd named discovery, and more, were dropped.
C21_Witness ==
    /\ ut.mode = "scan"
    /\ ut.op = "finish"
    /\ NamedCount(ut.seed, ut.from, ut.i) >= 33
    /\ ut.r.count = 32
    /\ ut.r.error_code = 0
    /\ ut.r.success
    /\ \E p \in (ut.from + 1)..ut.i :
          /\ UnitRecord(ut.seed, p).present
          /\ ~EmptyName(UnitRecord(ut.seed, p))
          /\ \A j \in 0..31 : ut.r.networks[j].bssid < p

\* C22: (under LedSpec) from the return of stop_blink() until the next
\* indicator operation is called, whatever the mode it was called in and
\* however the timer service runs, the LED is on and no blink timer exists.
C22_StopBlinkSolidOn ==
    ut.mode = "led" /\ ut.op = "stop_blink" =>
        /\ led_state
        /\ ~blink_timer
        /\ live_timers = 0
        /\ ~ENABLED BlinkTick

\* stop_blink() was called while the indicator was blinking.
C22_Witness ==
    /\ ut.mode = "led"
    /\ ut.op = "stop_blink"
    /\ ut.was = "Blinking"
    /\ led_state
    /\ live_timers = 0

\* C23, as stated: start_blink() called in any mode leaves the indicator
\* blinking, LED on, with exactly one timer, and no sequence of calls leaves
\* more than one timer.
C23_StartBlinkOneTimer ==
    /\ [](live_timers <= 1)
    /\ [][ut'.op = "start_blink" /\ ut'.i # ut.i
            => led_state' /\ blink_timer' /\ live_timers' = 1]_vars

\* C23, amended: start_blink() called in any mode removes the timer that
\* exists and, when xTimerCreate returns a timer, leaves the indicator
\* blinking, LED on, with exactly that one timer; when it returns none, no
\* timer exists and the LED is left as it was.  No sequence of calls leaves
\* more than one timer, and every timer that exists is the one the handle
\* names.
C23_StartBlinkOneTimer_Amended ==
    /\ [](live_timers <= 1)
    /\ [](blink_timer <=> live_timers = 1)
    /\ [][ut'.op = "start_blink" /\ ut'.i # ut.i
            => IF ut'.retv
               THEN led_state' /\ blink_timer' /\ live_timers' = 1
               ELSE led_state' = led_state /\ ~blink_timer' /\ live_timers' = 0]_vars

\* start_blink() was called while a timer was running and got a new timer.
C23_Witness ==
    /\ ut.mode = "led"
    /\ ut.op = "start_blink"
    /\ ut.was = "Blinking"
    /\ ut.retv
    /\ blink_timer
    /\ live_timers = 1

\* C24: from the return of on() until the next indicator operation the LED
\* is on and no blink timer runs; from the return of off() the LED is off and
\* no blink timer runs; in whatever mode the operation was called.
C24_OnOffSteady ==
    /\ ut.mode = "led" /\ ut.op = "on" => led_state /\ ~blink_timer /\ live_timers = 0
    /\ ut.mode = "led" /\ ut.op = "off" => ~led_state /\ ~blink_timer /\ live_timers = 0

\* C25: (under DuoSpec, two tasks calling request_scan with distinct
\* buffers; stated for the runs in which no wait expires) a call that has
\* returned true consumed the response of the cycle its own request started,
\* and the buffer a scan cycle works on is the buffer of the task whose
\* request started it.
C25_ConcurrentRequestersSafe ==
    ~timedout =>
        /\ \A t \in DuoTasks : ret[t] = "true" => consumed[t] = callid[t]
        /\ wpc \notin {"none", "wait_req"} /\ w_result # NullPtr
              => callid[w_result] = cyc

\* C26: a row is printed only by print_results' loop on a buffer with
\* success = true, for the index that equals the number of rows printed so
\* far, which is below count; "Found <n> networks" is printed after exactly
\* count rows with n = count; the failure line is printed on an empty console
\* and ends print_results, so no row goes with it.
C26_RowsMatchCount ==
    /\ [][Len(console') = Len(console) + 1 =>
            LET b == bufs["main"]
                new == console'[Len(console')]
            IN  /\ new.k = "row" =>
                      /\ b.success
                      /\ new.v = Len(console) - 1
                      /\ new.v < b.count
                      /\ console[1].k = "header"
                      /\ \A i \in 2..Len(console) : console[i] = Line("row", i - 2)
                /\ new.k = "found" =>
                      /\ new.v = b.count
                      /\ Len(console) = b.count + 1
                      /\ pc'["main"] = "sleep"
                /\ new.k = "failed" =>
                      /\ console = <<>>
                      /\ pc'["main"] = "sleep"]_vars
    /\ [](\A i \in 1..Len(console) : console[i].k = "failed" => Len(console) = 1)

\* print_results has rendered a full buffer: the header, rows 0..31 in order
\* and "Found 32 networks".
C26_Witness ==
    /\ pc["main"] = "sleep"
    /\ bufs["main"].count = MAX_SCAN_RESULTS
    /\ Len(console) = MAX_SCAN_RESULTS + 2
    /\ console[1].k = "header"
    /\ \A i \in 2..(MAX_SCAN_RESULTS + 1) : console[i] = Line("row", i - 2)
    /\ console[MAX_SCAN_RESULTS + 2] = Line("found", MAX_SCAN_RESULTS)

\* C27: (under UnitSpec) auth_mode_to_string gives OPEN, WEP, WPA, WPA2,
\* WPA/WPA2, WPA3 and ??? for the values 0..6 of the enumeration in that
\* order and ??? for every value above; no two values of the enumeration
\* give the same string.
C27_AuthToString ==
    ut.op = "to_string" =>
        /\ ut.cls = CASE ut.mask = 0 -> "OPEN"
                      [] ut.mask = 1 -> "WEP"
                      [] ut.mask = 2 -> "WPA"
                      [] ut.mask = 3 -> "WPA2"
                      [] ut.mask = 4 -> "WPA/WPA2"
                      [] ut.mask = 5 -> "WPA3"
                      [] OTHER -> "???"
        /\ \A v \in 0..6 :
             v # ut.mask /\ ut.mask <= 6 => auth_mode_to_string(AuthModeOf(v)) # ut.cls

\* The mixed mode has been converted, to a string no other mode gives.
C27_Witness ==
    /\ ut.op = "to_string"
    /\ ut.mask = 4
    /\ ut.cls = "WPA/WPA2"

\* C28: scanner_task consumes a request signal only with no consumed request
\* left unanswered, and raises the response only for a request it has
\* consumed, once (the request is answered by that step), after do_scan has
\* returned from that request's cycle with its status written.
C28_OneResponsePerRequest ==
    /\ [][g_request_sem.count = 1 /\ g_request_sem'.count = 0
            => cyc = 0 /\ cyc' = req_tag /\ cyc' # 0 /\ g_complete_sem' = g_complete_sem]_vars
    /\ [][g_complete_sem'.count = 1 /\ (g_complete_sem.count = 0 \/ resp_tag' # resp_tag)
            => /\ wpc = "give"
               /\ wpc' = "wait_req"
               /\ cyc # 0
               /\ resp_tag' = cyc
               /\ cyc' = 0
               /\ w_result # NullPtr => phase[cyc] = Ev.status]_vars
    /\ [](cyc = 0 <=> wpc \in {"none", "wait_req"})

\* The worker has answered its second request.
C28_Witness ==
    /\ cycles = 2
    /\ wpc = "wait_req"
    /\ cyc = 0
    /\ resp_tag = 2
    /\ g_complete_sem.count = 1
    /\ phase[2] = Ev.response

\* C29: when request_scan raises the request signal, the response signal is
\* not raised: no response of an earlier request is pending.
C29_NoStaleResponseAtGive ==
    [][\A t \in Tasks :
          pc[t] = "rs_give" /\ pc'[t] = "rs_wait" => g_complete_sem.count = 0]_vars

\* C30: (under UnitSpec) a callback that finds the buffer full leaves the
\* whole buffer as it was, and every callback, be its record null, unnamed,
\* dropped for lack of room or added, returns 0.
C30_CallbackFrameAndReturn ==
    [][ut'.op = "callback" /\ ut'.i # ut.i =>
         /\ ut'.rc = 0
         /\ is_full(ut.r) => ut'.r = ut.r]_vars

\* The callback has just returned 0 for a named record that found the buffer
\* full.
C30_Witness ==
    /\ ut.op = "callback"
    /\ ut.rc = 0
    /\ ut.r.count = MAX_SCAN_RESULTS
    /\ UnitRecord(ut.seed, ut.i).present
    /\ ~EmptyName(UnitRecord(ut.seed, ut.i))
    /\ \A j \in 0..(MAX_SCAN_RESULTS - 1) : ut.r.networks[j].bssid # ut.i

\* The length of the NUL-terminated string an ssid array holds.
StrLen(s) ==
    IF \E i \in 1..Len(s) : s[i] = 0
    THEN (CHOOSE i \in 1..Len(s) : s[i] = 0 /\ \A j \in 1..(i - 1) : s[j] # 0) - 1
    ELSE Len(s)

\* C31: (under UnitSpec) every entry the callbacks of a scan cycle stored has
\* a display name of 1 to 32 bytes, its terminator lies inside the 33-byte
\* field, and the name is the first min(ssid_len, 32) bytes reported.
C31_NameLengthBounded ==
    ut.mode = "scan" =>
        \A j \in 0..(ut.r.count - 1) :
            LET ap == ut.r.networks[j]
                d == UnitRecord(ut.seed, ap.bssid)
            IN  /\ StrLen(ap.ssid) \in 1..MAX_SSID_LEN
                /\ Len(ap.ssid) < MAX_SSID_LEN + 1
                /\ Len(ap.ssid) = Min(d.ssid_len, MAX_SSID_LEN)
                /\ \A i \in 1..Len(ap.ssid) : ap.ssid[i] = ByteAt(d.ssid, i)

\* The callback has just stored a record that reported a name of 40 bytes:
\* the entry's name has 32.
C31_Witness ==
    /\ ut.mode = "scan"
    /\ ut.op = "callback"
    /\ ut.r.count > 0
    /\ ut.r.networks[ut.r.count - 1].bssid = ut.i
    /\ UnitRecord(ut.seed, ut.i).ssid_len > MAX_SSID_LEN
    /\ StrLen(ut.r.networks[ut.r.count - 1].ssid) = MAX_SSID_LEN

\* C32: (under UnitSpec) an add() that returns true writes its argument to
\* the entry at the old count and raises count by one, leaving every other
\* entry, success and error_code as they were; an add() that returns false
\* leaves the whole buffer as it was.
C32_AddFrame ==
    [][ut'.op = "add" /\ ut'.i # ut.i =>
         IF ut'.retv
         THEN /\ ut'.r.count = ut.r.count + 1
              /\ ut'.r.networks[ut.r.count] = BuildAP(UnitRecord(ut.seed, ut'.i))
              /\ \A j \in 0..(MAX_SCAN_RESULTS - 1) :
                    j # ut.r.count => ut'.r.networks[j] = ut.r.networks[j]
              /\ ut'.r.success = ut.r.success
              /\ ut'.r.error_code = ut.r.error_code
         ELSE ut'.r = ut.r]_vars

\* The fifth add() in a row has succeeded on a buffer whose status fields are
\* not the default ones, as have the four before it.
C32_Witness ==
    /\ ut.mode = "adds"
    /\ ut.op = "add"
    /\ ut.retv
    /\ ut.i = 5
    /\ ut.r.count = 5
    /\ ut.r.success
    /\ ut.r.error_code # 0
    /\ ut.r.networks[0].bssid = 1
    /\ ut.r.networks[4].bssid = 5

\* C33: in every scan cycle do_scan calls reset() exactly once: none has been
\* made while the cycle is at its first statement, where the indicator is not
\* blinking, the radio is idle, not started and has reported nothing; one has
\* been made from then until the cycle's response is raised, and the
\* indicator is switched to blinking, the radio is started and a discovery is
\* added only after it.
C33_ResetOncePerCycle ==
    /\ [](wpc = "ds_reset" =>
             /\ cyc_resets = 0
             /\ cyc_starts = 0
             /\ cyc_disc = 0
             /\ ~blink_timer
             /\ ~scan_active)
    /\ [](InDoScan \/ (wpc = "give" /\ w_result # NullPtr) => cyc_resets = 1)
    /\ [][(wpc = "ds_blink" /\ wpc' # wpc) \/ cyc_starts' > cyc_starts
             \/ cyc_disc' > cyc_disc
          => cyc_resets = 1 /\ cyc_resets' = 1]_vars

\* The second cycle has made its one reset() on the buffer that the first
\* cycle left with an entry and success set, and its radio has added an entry.
C33_Witness ==
    /\ cycles = 2
    /\ cyc_resets = 1
    /\ wpc = "ds_delay"
    /\ cyc_disc = 1
    /\ bufs["main"].count = 1
    /\ ~bufs["main"].success
    /\ phase[1] = Ev.read

\* C34: in every state of a buffer that only do_scan and its callback write,
\* success implies error_code = 0, and a non-zero error_code implies that
\* success is false and count is 0.
C34_StatusFieldsConsistent ==
    \A t \in Tasks :
        /\ bufs[t].success => bufs[t].error_code = 0
        /\ bufs[t].error_code # 0 => ~bufs[t].success /\ bufs[t].count = 0

\* The start of the second cycle has failed on the buffer in which the first
\* cycle had stored an entry and set success.
C34_Witness ==
    /\ cycles = 2
    /\ wpc = "give"
    /\ bufs["main"].error_code = -5
    /\ ~bufs["main"].success
    /\ bufs["main"].count = 0
    /\ bufs["main"].networks[0] # APInfoDefault
    /\ phase[1] = Ev.read

\* C35: a buffer shows success only outside the part of a cycle between
\* do_scan's reset() and its status write; while a requester that has read
\* success = true is printing the rows, the buffer still shows success and the
\* worker is blocked in its take with no request pending; and as long as a
\* buffer keeps showing success its count and entries do not change.
C35_SuccessMeansFinal ==
    /\ [](\A t \in Tasks : bufs[t].success => ~(InDoScan /\ w_result = t))
    /\ [](\A t \in Tasks : pc[t] = "pr_rows" => bufs[t].success /\ WorkerWaiting)
    /\ [][\A t \in Tasks :
            bufs[t].success /\ bufs'[t].success
               => /\ bufs'[t].count = bufs[t].count
                  /\ bufs'[t].networks = bufs[t].networks]_vars

\* The requester is printing the rows of its second request's result, which
\* shows success again after the second cycle's reset() had cleared it.
C35_Witness ==
    /\ pc["main"] = "pr_rows"
    /\ callid["main"] = 2
    /\ consumed["main"] = 2
    /\ cycles = 2
    /\ cyc_resets = 1
    /\ bufs["main"].success
    /\ bufs["main"].count = 1
    /\ phase[1] = Ev.read

\* C36: a raised request signal always finds g_result_ptr non-null, so the
\* step in which the worker consumes a request reads a non-null pointer and
\* enters do_scan, once, and the worker never reaches its give with a null
\* pointer.
C36_TakeFindsBuffer ==
    /\ [](g_request_sem.count = 1 => g_result_ptr # NullPtr)
    /\ [](wpc = "give" => w_result # NullPtr)
    /\ [][wpc = "wait_req" /\ wpc' # "wait_req"
            => /\ g_result_ptr # NullPtr
               /\ w_result' = g_result_ptr
               /\ wpc' = "ds_reset"
               /\ cycles' = cycles + 1]_vars

\* The worker has just consumed the second request and entered do_scan with
\* the requester's buffer.
C36_Witness ==
    /\ wpc = "ds_reset"
    /\ w_result = "main"
    /\ g_result_ptr = "main"
    /\ cycles = 2
    /\ g_request_sem.count = 0
    /\ pc["main"] = "rs_wait"

\* C37: (under ApiSpec) a request_scan call whose buffer argument is null, or
\* that finds one of the two semaphores not created, has returned false when
\* its first step ends, having changed neither semaphore nor g_result_ptr, so
\* it raised no request and did not wait.
C37_RejectedCallHasNoEffect ==
    [][\A t \in Tasks :
          /\ callid'[t] # callid[t]
          /\ \/ ut'.cls = NullPtr
             \/ ~g_request_sem.created
             \/ ~g_complete_sem.created
          => /\ ret'[t] = "false"
             /\ pc'[t] \notin {"rs_give", "rs_wait"}
             /\ g_request_sem' = g_request_sem
             /\ g_complete_sem' = g_complete_sem
             /\ g_result_ptr' = g_result_ptr
             /\ req_tag' = req_tag
             /\ wpc' = wpc]_vars

\* The second call passed a null pointer after the first had run a cycle on
\* the caller's buffer: it has returned false and the pointer still refers to
\* that buffer.
C37_Witness ==
    /\ ut.op = "request_scan"
    /\ ut.cls = NullPtr
    /\ callid["main"] = 2
    /\ cycles = 1
    /\ ret["main"] = "false"
    /\ pc["main"] = "to_msg"
    /\ g_request_sem = [created |-> TRUE, count |-> 0]
    /\ g_complete_sem.created
    /\ g_result_ptr = "main"
    /\ ~timedout

\* C38: (under UnitSpec) auth_mode_from_cyw43 returns WPA3_PSK for no mask in
\* 0..255, and no entry stored by the discovery callback is classified
\* WPA3_PSK.
C38_NeverWpa3 ==
    /\ \A m \in 0..255 : auth_mode_from_cyw43(m) # "WPA3_PSK"
    /\ ut.op = "classify" => ut.cls # "WPA3_PSK"
    /\ ut.mode = "scan" =>
          \A j \in 0..(ut.r.count - 1) : ut.r.networks[j].auth # "WPA3_PSK"

\* The callback has just stored a record whose mask has bit 3 and neither WPA
\* bit: it is classified UNKNOWN.
C38_Witness ==
    /\ ut.mode = "scan"
    /\ ut.op = "callback"
    /\ ut.r.count > 0
    /\ ut.r.networks[ut.r.count - 1].bssid = ut.i
    /\ UnitRecord(ut.seed, ut.i).auth_mode = 8
    /\ ut.r.networks[ut.r.count - 1].auth = "UNKNOWN"

\* The terminating message types of the queue-based variant.
IsTerminator(m) == m.type \in {"WIFI_MSG_SCAN_COMPLETE", "WIFI_MSG_ERROR"}

\* C39: (under QueueSpec) when a scan cycle of wifi_task has ended, it has
\* enqueued exactly one terminating message, and in the queue no scan result
\* of a cycle stands behind the terminating message of that cycle.
C39_OneTerminatorPerCycle ==
    /\ wtpc = "sleep" => q_terms = 1
    /\ \A i \in 1..Len(s_result_queue) : \A j \in (i + 1)..Len(s_result_queue) :
          ~(/\ IsTerminator(s_result_queue[i])
            /\ s_result_queue[j].type = "WIFI_MSG_SCAN_RESULT"
            /\ s_result_queue[j].cycle = s_result_queue[i].cycle)

=============================================================================
